---- MODULE Spec2Model ----
(***************************************************************************)
(* Conversation state machine of the Telegram quoting bot                  *)
(* (src/telegram/lambda_function.py).                                      *)
(*                                                                         *)
(* A text (Python str) is a sequence of one-character strings, so that     *)
(* lower(), strip(), title(), startswith(), strptime() and re.match() are  *)
(* computed character by character.  A dict is a function whose DOMAIN is  *)
(* its key set; "k in d" is k \in DOMAIN d.                                *)
(***************************************************************************)
EXTENDS Integers, Sequences, FiniteSets, TLC

(* ------------------------------------------------------------------ *)
(* Bounds of the model                                                 *)
(* ------------------------------------------------------------------ *)

\* largest value of usuario['bcuenta'] the model lets a profile reach
MaxBcuenta == 1

\* largest number of texts the model appends to the shared instructions
MaxInstrucciones == 1

\* longest text the segmenter is applied to on its own
MaxTexto == 4

\* largest limit the segmenter is given on its own
MaxCorte == 3

\* number of spacings of the separators in the long assistant replies
MaxPeriodos == 55

(* ------------------------------------------------------------------ *)
(* Python str primitives                                               *)
(* ------------------------------------------------------------------ *)

Minusculas ==
  [A |-> "a", B |-> "b", C |-> "c", D |-> "d", E |-> "e", F |-> "f", G |-> "g",
   H |-> "h", I |-> "i", J |-> "j", K |-> "k", L |-> "l", M |-> "m", N |-> "n",
   O |-> "o", P |-> "p", Q |-> "q", R |-> "r", S |-> "s", T |-> "t", U |-> "u",
   V |-> "v", W |-> "w", X |-> "x", Y |-> "y", Z |-> "z"]

EsMayuscula(c) == c \in DOMAIN Minusculas

EsMinuscula(c) == \E k \in DOMAIN Minusculas : Minusculas[k] = c

LowerChar(c) ==
  IF EsMayuscula(c) THEN Minusculas[c] ELSE IF c = "É" THEN "é" ELSE c

UpperChar(c) ==
  IF EsMinuscula(c) THEN CHOOSE k \in DOMAIN Minusculas : Minusculas[k] = c
  ELSE IF c = "é" THEN "É" ELSE c

EsLetra(c) == EsMayuscula(c) \/ EsMinuscula(c) \/ c \in {"é", "É"}

EsEspacio(c) == c \in {" ", "\n", "\t"}

\* str.lower()
Lower(s) == [i \in 1..Len(s) |-> LowerChar(s[i])]

\* str.title(): a letter that follows a non-letter is upper-cased, every
\* other letter is lower-cased
Title(s) ==
  [i \in 1..Len(s) |->
     IF i = 1 \/ ~EsLetra(s[i-1]) THEN UpperChar(s[i]) ELSE LowerChar(s[i])]

\* str.strip()
Strip(s) ==
  LET noesp == {i \in 1..Len(s) : ~EsEspacio(s[i])}
  IN  IF noesp = {} THEN <<>>
      ELSE LET a == CHOOSE i \in noesp : \A j \in noesp : i <= j
               b == CHOOSE i \in noesp : \A j \in (i + 1)..Len(s) : EsEspacio(s[j])
           IN  SubSeq(s, a, b)

\* the slice s[:n]
Take(s, n) == SubSeq(s, 1, IF n < Len(s) THEN n ELSE Len(s))

\* str.startswith(p)
StartsWith(s, p) == Len(s) >= Len(p) /\ SubSeq(s, 1, Len(p)) = p

\* str.rstrip(ch) for a one-character ch
RStrip(s, ch) ==
  LET keep == {i \in 1..Len(s) : s[i] # ch}
  IN  IF keep = {} THEN <<>>
      ELSE SubSeq(s, 1, CHOOSE i \in keep : \A j \in keep : j <= i)

\* str.lstrip(ch) for a one-character ch
LStrip(s, ch) ==
  LET keep == {i \in 1..Len(s) : s[i] # ch}
  IN  IF keep = {} THEN <<>>
      ELSE SubSeq(s, CHOOSE i \in keep : \A j \in keep : i <= j, Len(s))

RECURSIVE Replace(_, _)
\* str.replace(old, "") for a non-empty old
Replace(s, old) ==
  IF Len(s) < Len(old) THEN s
  ELSE IF SubSeq(s, 1, Len(old)) = old THEN Replace(SubSeq(s, Len(old) + 1, Len(s)), old)
  ELSE <<s[1]>> \o Replace(SubSeq(s, 2, Len(s)), old)

\* str.endswith(p)
EndsWith(s, p) == Len(s) >= Len(p) /\ SubSeq(s, Len(s) - Len(p) + 1, Len(s)) = p

(* ------------------------------------------------------------------ *)
(* Texts the handler compares with or presents                         *)
(* ------------------------------------------------------------------ *)

t_hola == <<"h", "o", "l", "a">>
t_start == <<"/", "s", "t", "a", "r", "t">>
t_chatgpt == <<"c", "h", "a", "t", "g", "p", "t">>
t_dr_seguro == <<"d", "r", " ", "s", "e", "g", "u", "r", "o">>
t_si == <<"s", "i">>
t_no == <<"n", "o">>
t_continuar == <<"c", "o", "n", "t", "i", "n", "u", "a", "r">>
t_volver == <<"v", "o", "l", "v", "e", "r">>
t_volver_a_cotizar == <<"v", "o", "l", "v", "e", "r", " ", "a", " ", "c", "o", "t", "i", "z", "a", "r">>
t_cotiza == <<"c", "o", "t", "i", "z", "a">>
t_usuario == <<"u", "s", "u", "a", "r", "i", "o">>
t_asociado == <<"a", "s", "o", "c", "i", "a", "d", "o">>
t_desarrollador == <<"d", "e", "s", "a", "r", "r", "o", "l", "l", "a", "d", "o", "r">>
t_master == <<"m", "a", "s", "t", "e", "r">>
t_administracion == <<"a", "d", "m", "i", "n", "i", "s", "t", "r", "a", "c", "i", "o", "n">>
t_riesgos == <<"r", "i", "e", "s", "g", "o", "s">>
t_soporte_al_cliente == <<"s", "o", "p", "o", "r", "t", "e", " ", "a", "l", " ", "c", "l", "i", "e", "n", "t", "e">>
t_hablar_con_deyna == <<"h", "a", "b", "l", "a", "r", " ", "c", "o", "n", " ", "d", "e", "y", "n", "a">>
t_condicionados == <<"c", "o", "n", "d", "i", "c", "i", "o", "n", "a", "d", "o", "s">>
t_conicionados == <<"c", "o", "n", "i", "c", "i", "o", "n", "a", "d", "o", "s">>
t_metodos_pago == <<"m", "é", "t", "o", "d", "o", "s", " ", "p", "a", "g", "o">>
t_solicitudes == <<"s", "o", "l", "i", "c", "i", "t", "u", "d", "e", "s">>
t_red_clinicas == <<"r", "e", "d", " ", "c", "l", "i", "n", "i", "c", "a", "s">>
t_pdf == <<"p", "d", "f">>
L_Administracion == <<"A", "d", "m", "i", "n", "i", "s", "t", "r", "a", "c", "i", "o", "n">>
L_Hablar_con_TUBOT == <<"H", "a", "b", "l", "a", "r", " ", "c", "o", "n", " ", "T", "U", "B", "O", "T">>
L_Usuario == <<"U", "s", "u", "a", "r", "i", "o">>
L_Asociado == <<"A", "s", "o", "c", "i", "a", "d", "o">>
L_Master == <<"M", "a", "s", "t", "e", "r">>
L_Desarrollador == <<"D", "e", "s", "a", "r", "r", "o", "l", "l", "a", "d", "o", "r">>
L_Aranceles == <<"A", "r", "a", "n", "c", "e", "l", "e", "s">>
L_Red_clinicas == <<"R", "e", "d", " ", "c", "l", "i", "n", "i", "c", "a", "s">>
L_Si == <<"S", "i">>
L_No == <<"N", "o">>
TOKEN_START == <<"T", "O", "K", "E", "N", "_", "S", "T", "A", "R", "T">>
TOKEN_END == <<"T", "O", "K", "E", "N", "_", "E", "N", "D">>
L_Compania1 == <<"C", "o", "m", "p", "a", "n", "i", "a", "1">>
URL_DOC_ASIST == <<"h", "t", "t", "p", "s", ":", "/", "/", "Y", "O", "U", "R", "_", "D", "O", "C", "U", "M", "E", "N", "T", "_", "S", "E", "R", "V", "I", "C", "E", ".", "c", "o", "/", "d", "o", "c", "_", "a", "s", "i", "s", "t", "/">>
URL_PDFGEN == <<"h", "t", "t", "p", "s", ":", "/", "/", "Y", "O", "U", "R", "_", "P", "D", "F", "_", "S", "E", "R", "V", "I", "C", "E", ".", "c", "o", "/", "p", "d", "f", "g", "e", "n", "/">>
t_punto_pdf == <<".", "p", "d", "f">>
t_Cotizacion_ == <<"C", "o", "t", "i", "z", "a", "c", "i", "o", "n", "_">>
t_reborn == <<"T", "U", "B", "O", "T", ":", "r", "e", "b", "o", "r", "n">>
m_Hola == <<"H", "o", "l", "a">>
m_x == <<"x">>
m_fecha == <<"2", "5", "/", "1", "2", "/", "2", "0", "2", "4">>
m_fecha_imposible == <<"3", "1", "/", "0", "2", "/", "2", "0", "2", "4">>
m_fecha_iso == <<"2", "0", "2", "4", "-", "1", "2", "-", "2", "5">>
m_correo == <<"a", "@", "b", ".", "c">>
m_Madre == <<"M", "a", "d", "r", "e">>
m_M == <<"M">>
m_Ana == <<"A", "n", "a">>
m_A_pdf == <<"A", ".", "p", "d", "f">>
m_b_pdf == <<"b", ".", "p", "d", "f">>
m_sub == <<"s", "u", "b">>
m_r_pdf == <<"r", ".", "p", "d", "f">>
m_ok == <<"o", "k">>
id_7 == <<"7">>
id_8 == <<"8">>
id_b == <<"3">>
m_gpt4 == <<"g", "p", "t", "-", "4">>
m_hola_fin == <<"h", "o", "l", "a", " ">>
m_fecha_fin == <<"2", "5", "/", "1", "2", "/", "2", "0", "2", "4", " ">>

(* ------------------------------------------------------------------ *)
(* Dict helpers                                                        *)
(* ------------------------------------------------------------------ *)

\* the empty dict {} (also the empty list [] and the empty str '')
Vacio == <<>>

\* d after d[k] = v for every key k of r
Put(d, r) ==
  [k \in (DOMAIN d) \cup (DOMAIN r) |-> IF k \in DOMAIN r THEN r[k] ELSE d[k]]

\* d after "del d[k]" for every k of ks that is a key of d
Del(d, ks) == [k \in (DOMAIN d) \ ks |-> d[k]]

\* d.get(k, def)
Get(d, k, def) == IF k \in DOMAIN d THEN d[k] ELSE def

\* the elements of a list
Elems(l) == {l[i] : i \in 1..Len(l)}

RECURSIVE SetToSeq(_)
\* the keys of a dict as a list (some fixed order)
SetToSeq(S) ==
  IF S = {} THEN <<>>
  ELSE LET x == CHOOSE y \in S : TRUE IN <<x>> \o SetToSeq(S \ {x})

(* ------------------------------------------------------------------ *)
(* Validators                                                          *)
(* ------------------------------------------------------------------ *)

Digitos == {"0", "1", "2", "3", "4", "5", "6", "7", "8", "9"}

DigitVal(c) ==
  CASE c = "0" -> 0 [] c = "1" -> 1 [] c = "2" -> 2 [] c = "3" -> 3
    [] c = "4" -> 4 [] c = "5" -> 5 [] c = "6" -> 6 [] c = "7" -> 7
    [] c = "8" -> 8 [] c = "9" -> 9 [] OTHER -> 0

DigitChar(n) ==
  CASE n = 0 -> "0" [] n = 1 -> "1" [] n = 2 -> "2" [] n = 3 -> "3"
    [] n = 4 -> "4" [] n = 5 -> "5" [] n = 6 -> "6" [] n = 7 -> "7"
    [] n = 8 -> "8" [] n = 9 -> "9"

\* s[i], or a character that matches nothing past the end of s
At(s, i) == IF i >= 1 /\ i <= Len(s) THEN s[i] ELSE "$"

\* length of the text matched at position i by strptime's %d, which is the
\* regex 3[0-1]|[1-2]\d|0[1-9]|[1-9]| [1-9]  (0: no match)
LenDia(s, i) ==
  CASE At(s, i) = "3" /\ At(s, i+1) \in {"0", "1"} -> 2
    [] At(s, i) \in {"1", "2"} /\ At(s, i+1) \in Digitos -> 2
    [] At(s, i) = "0" /\ At(s, i+1) \in Digitos \ {"0"} -> 2
    [] At(s, i) \in Digitos \ {"0"} -> 1
    [] At(s, i) = " " /\ At(s, i+1) \in Digitos \ {"0"} -> 2
    [] OTHER -> 0

\* length of the text matched at position i by strptime's %m, which is the
\* regex 1[0-2]|0[1-9]|[1-9]  (0: no match)
LenMes(s, i) ==
  CASE At(s, i) = "1" /\ At(s, i+1) \in {"0", "1", "2"} -> 2
    [] At(s, i) = "0" /\ At(s, i+1) \in Digitos \ {"0"} -> 2
    [] At(s, i) \in Digitos \ {"0"} -> 1
    [] OTHER -> 0

\* value of the n (1 or 2) characters at position i read as a number
Num2(s, i, n) ==
  IF n = 1 THEN DigitVal(s[i]) ELSE 10 * DigitVal(s[i]) + DigitVal(s[i+1])

EsBisiesto(y) == (y % 4 = 0 /\ y % 100 # 0) \/ y % 400 = 0

DiasDelMes(y, m) ==
  CASE m \in {1, 3, 5, 7, 8, 10, 12} -> 31
    [] m \in {4, 6, 9, 11} -> 30
    [] m = 2 -> IF EsBisiesto(y) THEN 29 ELSE 28
    [] OTHER -> 0

NoFecha == [ok |-> FALSE, y |-> 0, m |-> 0, d |-> 0]

\* datetime.strptime(s, '%d<sep>%m<sep>%Y').date(); ok = FALSE is ValueError
strptime(s, sep) ==
  LET ld == LenDia(s, 1)
      pm == 1 + ld + 1
      lm == LenMes(s, pm)
      py == pm + lm + 1
  IN  IF /\ ld > 0
         /\ At(s, 1 + ld) = sep
         /\ lm > 0
         /\ At(s, pm + lm) = sep
         /\ \A k \in 0..3 : At(s, py + k) \in Digitos
         /\ Len(s) = py + 3
      THEN LET d == IF ld = 2 /\ s[1] = " " THEN DigitVal(s[2]) ELSE Num2(s, 1, ld)
               m == Num2(s, pm, lm)
               y == 1000 * DigitVal(s[py]) + 100 * DigitVal(s[py+1])
                      + 10 * DigitVal(s[py+2]) + DigitVal(s[py+3])
           IN  IF y >= 1 /\ d <= DiasDelMes(y, m)
               THEN [ok |-> TRUE, y |-> y, m |-> m, d |-> d]
               ELSE NoFecha
      ELSE NoFecha

\* validar_fecha: the date, or None (ok = FALSE)
validar_fecha(cadena_fecha) ==
  IF strptime(cadena_fecha, "-").ok THEN strptime(cadena_fecha, "-")
  ELSE IF strptime(cadena_fecha, "/").ok THEN strptime(cadena_fecha, "/")
  ELSE NoFecha

\* date.strftime('%Y-%m-%d')
strftime(f) ==
  << DigitChar(f.y \div 1000), DigitChar((f.y \div 100) % 10),
     DigitChar((f.y \div 10) % 10), DigitChar(f.y % 10), "-",
     DigitChar(f.m \div 10), DigitChar(f.m % 10), "-",
     DigitChar(f.d \div 10), DigitChar(f.d % 10) >>

\* fecha_sql: [ok |-> TRUE, txt |-> 'YYYY-MM-DD'], or None (ok = FALSE)
fecha_sql(cadena_fecha) ==
  IF strptime(cadena_fecha, "-").ok
  THEN [ok |-> TRUE, txt |-> strftime(strptime(cadena_fecha, "-"))]
  ELSE IF strptime(cadena_fecha, "/").ok
  THEN [ok |-> TRUE, txt |-> strftime(strptime(cadena_fecha, "/"))]
  ELSE [ok |-> FALSE, txt |-> <<>>]

\* correo_es_valido: re.match(r"[^@]+@[^@]+\.[^@]+", correo) is not None
correo_es_valido(correo) ==
  \E i \in 2..Len(correo) :
    /\ correo[i] = "@"
    /\ \A k \in 1..(i-1) : correo[k] # "@"
    /\ \E j \in (i+2)..(Len(correo)-1) :
         /\ correo[j] = "."
         /\ \A k \in (i+1)..(j-1) : correo[k] # "@"
         /\ correo[j+1] # "@"

parentescos ==
  {Lower(p) : p \in {<<"M","a","d","r","e">>, <<"P","a","d","r","e">>,
                     <<"E","s","p","o","s","o">>, <<"E","s","p","o","s","a">>,
                     <<"H","i","j","o">>, <<"H","i","j","a">>,
                     <<"H","e","r","m","a","n","o">>, <<"H","e","r","m","a","n","a">>}}

\* parentesco_valido
parentesco_valido(cadena) == Lower(Strip(cadena)) \in parentescos

\* modelo_es_valido, for a model that is a str
modelo_es_valido(model) == Strip(model) # <<>>

\* agregar_opciones as it would be if it started from an empty dict instead
\* of historial: the keys registered before are lost
agregar_opciones_reemplaza(historial, opciones, paso_default) ==
  [k \in {Lower(op) : op \in Elems(opciones)} |-> paso_default]

\* agregar_opciones as it would be with setdefault instead of assignment:
\* a key registered before keeps its step
agregar_opciones_conserva(historial, opciones, paso_default) ==
  LET claves == {Lower(op) : op \in Elems(opciones)}
  IN  [k \in (DOMAIN historial) \cup claves |->
         IF k \in DOMAIN historial THEN historial[k] ELSE paso_default]

\* agregar_opciones with a paso_default that is not a dict (every call of
\* the handler); opciones is the list of labels
agregar_opciones(historial, opciones, paso_default) ==
  LET claves == {Lower(o) : o \in Elems(opciones)}
      pd == [k \in claves |-> paso_default]
  IN  [k \in (DOMAIN historial) \cup claves |->
         IF k \in claves THEN Get(pd, k, "start") ELSE historial[k]]

(* ------------------------------------------------------------------ *)
(* Outbound actions and collaborator calls of a turn                   *)
(* ------------------------------------------------------------------ *)

\* a message text: the template of the source line that builds it and the
\* variable text it embeds (assistant reply or segment)
Txt(tpl) == [tpl |-> tpl, arg |-> <<>>]

TxtArg(tpl, arg) == [tpl |-> tpl, arg |-> arg]

\* respuesta['text'] == '' (or respuesta without 'text')
SinTexto == Txt("")

\* enviar_mensaje_telegram: the request it sends, by the priority
\* document > buttons > options > plain text
enviar_mensaje_telegram(mensaje, botones, url_pdf, pdf_file, opciones) ==
  IF url_pdf # Vacio
  THEN [e |-> "send", tipo |-> "documento", msg |-> mensaje, url |-> url_pdf]
  ELSE IF botones # Vacio
  THEN [e |-> "send", tipo |-> "botones", msg |-> mensaje, botones |-> botones]
  ELSE IF opciones # Vacio
  THEN [e |-> "send", tipo |-> "opciones", msg |-> mensaje, opciones |-> opciones]
  ELSE [e |-> "send", tipo |-> "texto", msg |-> mensaje]

\* time.sleep(seg)
Sleep(seg) == [e |-> "sleep", seg |-> seg]

\* a call of a collaborator (quote engine, document catalog, assistant)
Call(svc, data) == [e |-> "call", svc |-> svc, data |-> data]

\* guardar_usuario(user_id, ...)
Save(user_id) == [e |-> "save", id |-> user_id]

BotonesSiNo == [Si |-> L_Si, No |-> L_No]

BotonesVolver == [Si |-> L_Si, No |-> L_No, Cotiza |-> <<"V", "o", "l", "v", "e", "r">>]

BotonesCotizar == [Si |-> L_Si, No |-> L_No, Cotiza |-> <<"V", "o", "l", "v", "e", "r", " ", "a", " ", "c", "o", "t", "i", "z", "a", "r">>]

BotonesSexo == [M |-> <<"M", "a", "s", "c", "u", "l", "i", "n", "o">>,
   F |-> <<"F", "e", "m", "e", "n", "i", "n", "o">>]

BotonesContinuar == [Continuar |-> <<"C", "o", "n", "t", "i", "n", "u", "a", "r">>]

\* the buttons of the "anything else?" question, by role
BotonesOtraPregunta(rol) ==
  IF rol = "admin" \/ rol = "developer" THEN BotonesVolver ELSE BotonesCotizar

OpcionesArea == <<<<"R", "i", "e", "s", "g", "o", "s">>,
  <<"S", "o", "p", "o", "r", "t", "e", " ", "a", "l", " ", "C", "l", "i", "e", "n", "t", "e">>, L_Administracion, L_Hablar_con_TUBOT>>

OpcionesRol(developer) ==
  IF developer = "ON" THEN <<L_Usuario, L_Asociado, L_Master, L_Desarrollador>>
  ELSE <<L_Usuario, L_Asociado, L_Master>>

suboptions ==
  [k \in {t_administracion, t_riesgos, t_soporte_al_cliente} |->
     CASE k = t_administracion ->
            <<L_Aranceles, <<"R", "e", "l", "a", "c", "i", "o", "n", " ", "C", "o", "m", "i", "s", "i", "o", "n", "e", "s">>,
              <<"P", "a", "g", "o", " ", "C", "o", "m", "i", "s", "i", "o", "n", "e", "s">>,
              <<"C", "o", "n", "t", "a", "c", "t", "o">>>>
       [] k = t_riesgos ->
            <<<<"C", "o", "n", "d", "i", "c", "i", "o", "n", "a", "d", "o", "s">>,
              <<"M", "é", "t", "o", "d", "o", "s", " ", "P", "a", "g", "o">>,
              <<"R", "e", "q", "u", "i", "s", "i", "t", "o", "s", " ", "C", "o", "t", "i", "z", "a", "r">>,
              <<"R", "e", "q", "u", "i", "s", "i", "t", "o", "s", " ", "E", "m", "i", "t", "i", "r">>,
                <<"R", "e", "q", "u", ".", " ", "c", "o", "t", "i", "z", "a", "r", " ", "c", "o", "l", "e", "c", "t", "i", "v", "o">>,
                <<"R", "e", "q", "u", ".", " ", "c", "o", "t", "i", "z", "a", "r", " ", "f", "l", "o", "t", "a">>,
              <<"S", "o", "l", "i", "c", "i", "t", "u", "d", "e", "s">>,
                <<"E", "d", "a", "d", " ", "d", "e", " ", "a", "d", "m", "i", "s", "i", "b", "i", "l", "i", "d", "a", "d">>,
                <<"P", "l", "a", "z", "o", "s", " ", "d", "e", " ", "e", "s", "p", "e", "r", "a">>>>
       [] k = t_soporte_al_cliente ->
            <<L_Red_clinicas, <<"P", "r", "o", "c", ".", " ", "R", "e", "c", "l", "a", "m", "o", "s">>,
              <<"T", "r", "a", "m", "i", "t", "a", "r", " ", "R", "e", "c", "l", ".">>,
              <<"C", "o", "n", "t", "a", "c", "t", "o", "s", " ", "E", "m", "e", "r", "g", ".">>>>]

ListaCompanias ==
  <<L_Compania1, <<"C", "o", "m", "p", "a", "n", "i", "a", "2">>,
    <<"C", "o", "m", "p", "a", "n", "i", "a", "3">>,
    <<"C", "o", "m", "p", "a", "n", "i", "a", "4">>,
    <<"C", "o", "m", "p", "a", "n", "i", "a", "5">>,
    <<"C", "o", "m", "p", "a", "n", "i", "a", "6">>,
      <<"C", "o", "m", "p", "a", "n", "i", "a", "7">>,
      <<"C", "o", "m", "p", "a", "n", "i", "a", "8">>,
      <<"C", "o", "m", "p", "a", "n", "i", "a", "9">>,
      <<"C", "o", "m", "p", "a", "n", "i", "a", "1", "0">>>>

companies ==
  [k \in {t_conicionados, t_red_clinicas, t_metodos_pago, t_solicitudes} |->
     ListaCompanias]

(* ------------------------------------------------------------------ *)
(* The rules of lambda_handler.  c is the context of the turn:         *)
(*   c.id  sender          c.u  usuario (after the shortcut override)  *)
(*   c.step, c.nombre, c.rol, c.master, c.developer  the locals        *)
(*   c.m   mensaje_decoded c.db the table                              *)
(* o holds what the collaborators answer in this turn.  A rule yields  *)
(* the profile, the events so far, the pending respuesta['text'] with  *)
(* botones/url_pdf/pdf_file/opciones, the writes it made to the table, *)
(* and whether it raised.                                              *)
(* ------------------------------------------------------------------ *)

R0(c) ==
  [u |-> c.u, traza |-> <<>>, text |-> SinTexto, botones |-> Vacio,
   url_pdf |-> Vacio, pdf_file |-> Vacio, opciones |-> Vacio,
   db |-> Vacio, abort |-> FALSE]

\* usuario.get('historial', {})
Hist(u) == Get(u, "historial", Vacio)

\* the start rule as it would be without the test of the role: every
\* sender that has a name gets the area menu of the associates
ReglaStartSinRol(c, o) ==
  LET u1 == Put(c.u, [poliza |-> "Salud", cotiza |-> <<>>])
  IN  [R0(c) EXCEPT
         !.traza = << enviar_mensaje_telegram(Txt("saludo_admin"), Vacio, Vacio, Vacio, Vacio),
                      enviar_mensaje_telegram(Txt("pide_area"), Vacio, Vacio, Vacio, OpcionesArea) >>,
         !.opciones = OpcionesArea,
         !.u = Put(u1, [historial |-> agregar_opciones(Hist(u1), OpcionesArea, "askedAdmin"),
                        step |-> "askedAdmin"])]

\* lines 736-764
ReglaStart(c, o) ==
  LET u1 == Put(c.u, [poliza |-> "Salud", cotiza |-> <<>>])
  IN  IF c.nombre = <<>>
      THEN [R0(c) EXCEPT
              !.traza = << enviar_mensaje_telegram(Txt("saludo"), Vacio, Vacio, Vacio, Vacio),
                           Sleep(1) >>,
              !.text = Txt("pide_nombre"),
              !.u = Put(u1, [step |-> "askedWelcome"])]
      ELSE IF c.rol = "admin"
      THEN [R0(c) EXCEPT
              !.traza = << enviar_mensaje_telegram(Txt("saludo_admin"), Vacio, Vacio, Vacio, Vacio),
                           enviar_mensaje_telegram(Txt("pide_area"), Vacio, Vacio, Vacio, OpcionesArea) >>,
              !.opciones = OpcionesArea,
              !.u = Put(u1, [historial |-> agregar_opciones(Hist(u1), OpcionesArea, "askedAdmin"),
                             step |-> "askedAdmin"])]
      ELSE IF c.rol = "developer"
      THEN [R0(c) EXCEPT
              !.text = Txt("hola_gandalf"),
              !.u = Put(u1, [step |-> "waitForQuestion", modo |-> "gandalf"])]
      ELSE [R0(c) EXCEPT
              !.traza = << enviar_mensaje_telegram(Txt("saludo_nombre"), Vacio, Vacio, Vacio, Vacio),
                           Sleep(1) >>,
              !.text = Txt("pide_fecha"),
              !.u = Put(u1, [step |-> "askedBirthdate"])]

\* the master rule as it would be without line 776: the menu is shown and
\* its labels are not registered
ReglaMasterSinRegistro(c, o) ==
  LET u1 == Put(c.u, [poliza |-> "Salud", cotiza |-> <<>>])
      ops == OpcionesRol(c.developer)
  IN  [R0(c) EXCEPT
         !.traza = << enviar_mensaje_telegram(Txt("saludo_admin"), Vacio, Vacio, Vacio, Vacio),
                      enviar_mensaje_telegram(Txt("pide_rol"), Vacio, Vacio, Vacio, ops) >>,
         !.opciones = ops,
         !.u = Put(u1, [step |-> "askedMaster"])]

\* lines 766-779
ReglaMaster(c, o) ==
  LET u1 == Put(c.u, [poliza |-> "Salud", cotiza |-> <<>>])
      ops == OpcionesRol(c.developer)
  IN  [R0(c) EXCEPT
         !.traza = << enviar_mensaje_telegram(Txt("saludo_admin"), Vacio, Vacio, Vacio, Vacio),
                      enviar_mensaje_telegram(Txt("pide_rol"), Vacio, Vacio, Vacio, ops) >>,
         !.opciones = ops,
         !.u = Put(u1, [historial |-> agregar_opciones(Hist(u1), ops, "askedMaster"),
                        step |-> "askedMaster"])]

\* lines 781-783
ReglaChatgpt(c, o) ==
  [R0(c) EXCEPT !.text = Txt("adelante"),
                !.u = Put(c.u, [step |-> "waitForQuestion"])]

\* lines 785-791
ReglaAskedWelcome(c, o) ==
  [R0(c) EXCEPT !.text = Txt("gusto_pide_fecha"),
                !.u = Put(c.u, [nombre |-> Title(c.m), step |-> "askedBirthdate"])]

\* the birth date rule as it would be if line 796 preceded the validation:
\* the input is stored whether it is a date or not
ReglaAskedBirthdateGuardaAntes(c, o) ==
  IF validar_fecha(c.m).ok
  THEN [R0(c) EXCEPT !.text = Txt("pide_correo"),
                     !.u = Put(c.u, [fecha |-> c.m, step |-> "askedEmail"])]
  ELSE [R0(c) EXCEPT !.text = Txt("fecha_invalida"),
                     !.u = Put(c.u, [fecha |-> c.m, step |-> "askedBirthdate"])]

\* the birth date rule as it would be if a valid date handed the
\* conversation to the contact branch of line 824 by storing the step
\* askedName
ReglaAskedBirthdateContacto(c, o) ==
  IF validar_fecha(c.m).ok
  THEN [R0(c) EXCEPT !.text = Txt("pide_correo"),
                     !.u = Put(c.u, [fecha |-> c.m, step |-> "askedName"])]
  ELSE [R0(c) EXCEPT !.text = Txt("fecha_invalida"),
                     !.u = Put(c.u, [step |-> "askedBirthdate"])]

\* lines 793-801
ReglaAskedBirthdate(c, o) ==
  IF validar_fecha(c.m).ok
  THEN [R0(c) EXCEPT !.text = Txt("pide_correo"),
                     !.u = Put(c.u, [fecha |-> c.m, step |-> "askedEmail"])]
  ELSE [R0(c) EXCEPT !.text = Txt("fecha_invalida"),
                     !.u = Put(c.u, [step |-> "askedBirthdate"])]

\* lines 803-822
ReglaAskedOnlyName(c, o) ==
  IF "poliza" \notin DOMAIN c.u
  THEN [R0(c) EXCEPT !.abort = TRUE,
                     !.u = Put(c.u, [nombre |-> Title(c.m), step |-> "end"])]
  ELSE [R0(c) EXCEPT
          !.traza = << Call("asignar_a_analista",
                            [telefono |-> c.id, nombre |-> Title(c.m), poliza |-> c.u.poliza]) >>,
          !.text = Txt("otra_pregunta_analista"),
          !.botones = BotonesCotizar,
          !.u = Put(c.u, [nombre |-> Title(c.m), step |-> "additionalHelp"])]

\* lines 824-827
ReglaAskedName(c, o) ==
  [R0(c) EXCEPT !.text = Txt("pide_correo_contacto"),
                !.u = Put(c.u, [nombre |-> Title(c.m), step |-> "askedEmail"])]

\* lines 829-839
ReglaAskedEmail(c, o) ==
  IF correo_es_valido(c.m)
  THEN [R0(c) EXCEPT !.text = Txt("pide_genero"),
                     !.botones = BotonesSexo,
                     !.u = Put(c.u, [email |-> c.m, step |-> "askedSex"])]
  ELSE [R0(c) EXCEPT !.text = Txt("correo_invalido")]

\* a variant of the askedSex rule that leaves the dependent count alone
ReglaAskedSexSinCuenta(c, o) ==
  [R0(c) EXCEPT !.text = Txt("pide_familiar"),
                !.botones = BotonesSiNo,
                !.u = Put(c.u, [sexo |-> c.m, beneficiario |-> "no",
                                step |-> "askBenefit"])]

\* lines 841-850
ReglaAskedSex(c, o) ==
  [R0(c) EXCEPT !.text = Txt("pide_familiar"),
                !.botones = BotonesSiNo,
                !.u = Put(c.u, [sexo |-> c.m, bcuenta |-> 0, beneficiario |-> "no",
                                step |-> "askBenefit"])]

\* a variant of the askBenefit rule that never asks for the relationship
ReglaAskBenefitSinPariente(c, o) ==
  [R0(c) EXCEPT !.text = Txt("no_mas_familiares"),
                !.botones = BotonesContinuar,
                !.u = Put(c.u, [step |-> "askedFamily"])]

\* lines 852-862
ReglaAskBenefit(c, o) ==
  IF c.m = t_si
  THEN [R0(c) EXCEPT !.text = Txt("pide_parentesco"),
                     !.u = Put(c.u, [beneficiario |-> "si", step |-> "askedParent"])]
  ELSE [R0(c) EXCEPT !.text = Txt("no_mas_familiares"),
                     !.botones = BotonesContinuar,
                     !.u = Put(c.u, [step |-> "askedFamily"])]

\* lines 864-871
ReglaAskedParent(c, o) ==
  IF parentesco_valido(c.m)
  THEN [R0(c) EXCEPT !.text = Txt("pide_fecha_pariente"),
                     !.u = Put(c.u, [parentesco |-> Lower(Strip(c.m)),
                                     step |-> "askedBirthdateParent"])]
  ELSE [R0(c) EXCEPT !.text = Txt("parentesco_invalido")]

\* lines 873-892
ReglaAskedBirthdateParent(c, o) ==
  IF validar_fecha(c.m).ok
  THEN IF "bcuenta" \notin DOMAIN c.u
       THEN [R0(c) EXCEPT !.abort = TRUE, !.u = Put(c.u, [bfecha |-> c.m])]
       ELSE LET u1 == Put(c.u, [bfecha |-> c.m, bcuenta |-> c.u.bcuenta + 1])
            IN  IF "parentesco" \notin DOMAIN u1
                THEN [R0(c) EXCEPT !.abort = TRUE, !.u = u1]
                ELSE [R0(c) EXCEPT
                        !.traza = << Call("agregar_beneficiario",
                                          [btoken |-> c.id, bfecha |-> fecha_sql(u1.bfecha),
                                           bparentesco |-> u1.parentesco,
                                           correlativo |-> u1.bcuenta, id |-> o.ben]) >>,
                        !.text = Txt("pide_otro_familiar"),
                        !.botones = BotonesSiNo,
                        !.u = Put(u1, [step |-> "askBenefit"])]
  ELSE [R0(c) EXCEPT !.text = Txt("fecha_invalida")]

\* the default of dividir_mensaje's max_length (line 473)
max_length == 1000

\* 1-based position of the last ch among the first n characters of s (0: none),
\* that is s.rfind(ch, 0, n) + 1
RFind(s, ch, n) ==
  LET ps == {i \in 1..n : i <= Len(s) /\ s[i] = ch}
  IN  IF ps = {} THEN 0 ELSE CHOOSE i \in ps : \A j \in ps : j <= i

\* a cut one character beyond the limit
CorteTrasLimite(mensaje, max) == max + 1

\* the cut index "corte" of one iteration of dividir_mensaje (lines 476-480);
\* rfind('.') + 1 is never -1, so the hard cut of line 480 is never taken
Corte(mensaje, max) ==
  LET espacio == RFind(mensaje, " ", max) - 1
  IN  IF espacio = -1
      THEN LET punto == (RFind(mensaje, ".", max) - 1) + 1
           IN  IF punto = -1 THEN max ELSE punto
      ELSE espacio

\* a segmenter that returns the text whole, whatever its length
dividir_mensaje_entero(mensaje, max) == [fin |-> TRUE, trozos |-> <<mensaje>>]

RECURSIVE dividir_mensaje(_, _)
\* dividir_mensaje: fin = TRUE and the chunks, or fin = FALSE when the while
\* loop of line 475 never ends (corte = 0 and the text no longer changes)
dividir_mensaje(mensaje, max) ==
  IF Len(mensaje) > max
  THEN LET corte == Corte(mensaje, max)
           trozo == Strip(SubSeq(mensaje, 1, corte))
           resto == Strip(SubSeq(mensaje, corte + 1, Len(mensaje)))
       IN  IF resto = mensaje
           THEN [fin |-> FALSE, trozos |-> <<>>]
           ELSE LET r == dividir_mensaje(resto, max)
                IN  [fin |-> r.fin,
                     trozos |-> IF r.fin THEN <<trozo>> \o r.trozos ELSE <<>>]
  ELSE [fin |-> TRUE, trozos |-> <<mensaje>>]

\* the primary quote request (lines 908-917), with the id the gateway returns
DatosCotizar1(c, u, id) ==
  [telefono |-> c.id, fecha |-> fecha_sql(u.fecha), nombre |-> u.nombre,
   email |-> u.email, sexo |-> u.sexo, plan |-> u.plan, monto |-> u.monto,
   monto2 |-> u.monto2, id |-> id]

\* the alternate quote request (lines 945-956), with the id the gateway returns
DatosCotizar2(c, u, id) ==
  [telefono |-> c.id, fecha |-> fecha_sql(u.fecha), nombre |-> u.nombre,
   email |-> u.email, sexo |-> u.sexo, plan |-> u.plan, monto |-> u.monto,
   monto2 |-> u.monto2, monto3 |-> u.monto3, bdelete |-> "SI", id |-> id]

\* the send of lines 921-934 / 959-970 for one quotation id
EnvioCotizacion(id) ==
  IF id # <<>>
  THEN << enviar_mensaje_telegram(TxtArg("cotizacion_lista", id), Vacio,
                                  URL_PDFGEN \o id \o t_punto_pdf,
                                  t_Cotizacion_ \o id \o t_punto_pdf, Vacio),
          Sleep(15) >>
  ELSE << enviar_mensaje_telegram(Txt("error_cotizacion"), Vacio, Vacio, Vacio, Vacio) >>

\* lines 894-986
ReglaAskedFamily(c, o) ==
  LET t1 == << enviar_mensaje_telegram(Txt("enviando_cotizacion"), Vacio, Vacio, Vacio, Vacio),
               Sleep(1) >>
      u2 == Put(c.u, [bcuenta |-> 0, plan |-> "Amplio", monto |-> "100000",
                      monto2 |-> "200000", modo |-> "chatgpt",
                      step |-> "waitForQuestion"])
      db2 == (c.id :> u2)
      t2 == t1 \o << Save(c.id) >>
  IN  IF ~({"email", "sexo"} \subseteq DOMAIN u2)
      THEN [R0(c) EXCEPT !.abort = TRUE, !.u = u2, !.db = db2, !.traza = t2]
      ELSE
      LET t3 == t2 \o << Call("cotizar", DatosCotizar1(c, u2, o.cot1)),
                         Call("generar_pdf", [id |-> o.cot1, ok |-> o.pdf1]) >>
      IN  IF ~o.pdf1
          THEN [R0(c) EXCEPT !.abort = TRUE, !.u = u2, !.db = db2, !.traza = t3]
          ELSE
          LET u3 == IF o.cot1 # <<>> THEN Put(u2, [cotiza |-> o.cot1]) ELSE u2
              u4 == Put(u3, [monto |-> "50000", monto2 |-> "30000",
                             monto3 |-> "20000", plan |-> "Amplio"])
              t4 == t3 \o EnvioCotizacion(o.cot1)
                       \o << enviar_mensaje_telegram(Txt("otras_cotizaciones"), Vacio, Vacio, Vacio, Vacio),
                             Sleep(1),
                             Call("cotizar", DatosCotizar2(c, u4, o.cot2)),
                             Call("generar_pdf", [id |-> o.cot2, ok |-> o.pdf2]) >>
          IN  IF ~o.pdf2
              THEN [R0(c) EXCEPT !.abort = TRUE, !.u = u4, !.db = db2, !.traza = t4]
              ELSE
              LET u5 == Put(u4, [modo |-> "chatgpt", step |-> "waitForQuestion"])
              IN  [R0(c) EXCEPT
                     !.traza = t4 \o EnvioCotizacion(o.cot2)
                                 \o << enviar_mensaje_telegram(Txt("cotizacion_procesada"), Vacio, Vacio, Vacio, Vacio),
                                       Save(c.id) >>,
                     !.pdf_file = IF o.cot2 # <<>> THEN t_Cotizacion_ \o o.cot2 \o t_punto_pdf
                                  ELSE IF o.cot1 # <<>> THEN t_Cotizacion_ \o o.cot1 \o t_punto_pdf
                                  ELSE Vacio,
                     !.u = u5,
                     !.db = (c.id :> u5)]

\* lines 988-1004
ReglaEnd(c, o) ==
  IF "poliza" \notin DOMAIN c.u
  THEN [R0(c) EXCEPT !.abort = TRUE]
  ELSE [R0(c) EXCEPT
          !.text = IF c.u.poliza = "Salud" THEN Txt("cotizacion_procesada")
                   ELSE Txt("otra_pregunta_end"),
          !.botones = BotonesOtraPregunta(c.rol),
          !.u = Put(c.u, [step |-> "additionalHelp"])]

\* the model an assistant call uses (lines 1074-1077)
ModeloDe(u) ==
  IF "model" \in DOMAIN u /\ modelo_es_valido(u.model) THEN u.model
  ELSE <<"g", "p", "t", "-", "4", "o">>

\* a variant of the additionalHelp rule that says farewell and leaves the
\* mode as it was
ReglaAdditionalHelpSinModo(c, o) ==
  [R0(c) EXCEPT !.text = Txt("despedida"),
                !.u = Put(c.u, [step |-> "finalizado"])]

\* lines 1006-1055
ReglaAdditionalHelp(c, o) ==
  IF c.m = t_no
  THEN [R0(c) EXCEPT
          !.text = IF c.rol = "admin" \/ c.rol = "developer"
                   THEN Txt("despedida_admin") ELSE Txt("despedida"),
          !.u = Put(c.u, [step |-> "finalizado", modo |-> "normal"])]
  ELSE IF c.m = t_volver_a_cotizar \/ c.m = t_volver \/ StartsWith(c.m, t_hola)
  THEN [R0(c) EXCEPT
          !.text = IF c.rol = "admin" \/ c.rol = "developer"
                   THEN Txt("volver_consultar") ELSE Txt("volver_cotizar"),
          !.u = Put(c.u, [step |-> "start", modo |-> "normal"])]
  ELSE IF c.m = t_si
  THEN IF c.u.modo = "gandalf"
       THEN [R0(c) EXCEPT !.text = Txt("soy_gandalf"),
                          !.u = Put(c.u, [step |-> "waitForQuestion"])]
       ELSE [R0(c) EXCEPT !.text = Txt("escribe_pregunta"),
                          !.u = Put(c.u, [modo |-> "chatgpt", step |-> "waitForQuestion"])]
  ELSE IF c.u.modo = "chatgpt"
  THEN LET t1 == << Call("pregunta_a_chatgpt",
                         [mensaje |-> c.m, model |-> ModeloDe(Vacio), reply |-> o.gpt]) >>
       IN  IF o.gpt = TOKEN_START
           THEN [R0(c) EXCEPT !.traza = t1, !.text = Txt("cotizar_de_nuevo"),
                              !.u = Put(c.u, [step |-> "start", modo |-> "normal"])]
           ELSE IF o.gpt = TOKEN_END
           THEN [R0(c) EXCEPT !.traza = t1, !.text = Txt("despedida"),
                              !.u = Put(c.u, [step |-> "finalizado", modo |-> "normal"])]
           ELSE [R0(c) EXCEPT !.traza = t1,
                              !.text = TxtArg("respuesta_mas_pregunta", o.gpt),
                              !.botones = BotonesOtraPregunta(c.rol),
                              !.u = Put(c.u, [step |-> "confirmContinue"])]
  ELSE R0(c)

\* lines 1057-1071: respuesta_chatgpt is not bound in this branch (NameError)
ReglaEndCotiza(c, o) == [R0(c) EXCEPT !.abort = TRUE]

\* a variant of the waitForQuestion rule that asks "anything else?" without
\* consulting the assistant
ReglaWaitForQuestionSinConsulta(c, o) ==
  IF c.m # t_continuar
  THEN [R0(c) EXCEPT !.text = Txt("otra_pregunta"),
                     !.botones = BotonesOtraPregunta(c.rol),
                     !.u = Put(c.u, [step |-> "additionalHelp"])]
  ELSE R0(c)

\* lines 1073-1099
ReglaWaitForQuestion(c, o) ==
  IF c.m # t_continuar
  THEN LET svc == IF c.u.modo = "gandalf" \/ c.rol = "developer"
                  THEN "pregunta_a_gandalf" ELSE "pregunta_a_chatgpt"
           t1 == << Call(svc, [mensaje |-> c.m, model |-> ModeloDe(c.u), reply |-> o.gpt]) >>
           div == dividir_mensaje(o.gpt, max_length)
           envios(i) == IF i % 2 = 1
                        THEN enviar_mensaje_telegram(TxtArg("segmento", div.trozos[(i + 1) \div 2]),
                                                     Vacio, Vacio, Vacio, Vacio)
                        ELSE Sleep(1)
       IN  IF ~div.fin
           THEN [R0(c) EXCEPT !.abort = TRUE, !.traza = t1]
           ELSE [R0(c) EXCEPT
                   !.traza = t1 \o [i \in 1..(2 * Len(div.trozos)) |-> envios(i)],
                   !.text = Txt("otra_pregunta"),
                   !.botones = BotonesOtraPregunta(c.rol),
                   !.u = Put(c.u, [step |-> "additionalHelp"])]
  ELSE R0(c)

\* confirmContinue as it would be without lines 1109 and 1113: the step
\* changes and the mode stays what it was
ReglaConfirmContinueSinModo(c, o) ==
  IF c.m = t_cotiza
  THEN [R0(c) EXCEPT !.text = Txt("podemos_cotizar"),
                     !.u = Put(c.u, [step |-> "start"])]
  ELSE [R0(c) EXCEPT !.text = Txt("despedida"),
                     !.u = Put(c.u, [step |-> "finalizado"])]

\* lines 1101-1113
ReglaConfirmContinue(c, o) ==
  IF c.m = t_cotiza
  THEN [R0(c) EXCEPT !.text = Txt("podemos_cotizar"),
                     !.u = Put(c.u, [step |-> "start", modo |-> "normal"])]
  ELSE [R0(c) EXCEPT !.text = Txt("despedida"),
                     !.u = Put(c.u, [step |-> "finalizado", modo |-> "normal"])]

\* lines 1115-1137
ReglaAskedAdmin(c, o) ==
  IF c.m \in {t_administracion, t_riesgos, t_soporte_al_cliente}
  THEN LET opciones == suboptions[c.m]
       IN  [R0(c) EXCEPT
              !.text = Txt("pide_subcategoria"),
              !.opciones = opciones,
              !.u = Put(c.u, [categoria |-> c.m,
                              historial |-> agregar_opciones(Hist(c.u), opciones,
                                                             "sub_category_selection"),
                              opciones |-> opciones,
                              step |-> "sub_category_selection"])]
  ELSE IF c.m = t_hablar_con_deyna
  THEN [R0(c) EXCEPT
          !.traza = << enviar_mensaje_telegram(Txt("adelante"), Vacio, Vacio, Vacio, Vacio) >>,
          !.u = Put(c.u, [step |-> "waitForQuestion"])]
  ELSE [R0(c) EXCEPT !.text = Txt("pide_subarea"),
                     !.u = Put(c.u, [step |-> "start"])]

\* lines 1138-1163; the comparisons usuario['rol'] == ... and
\* usuario['modo'] == ... of lines 1144-1158 store nothing, and the first of
\* each branch raises KeyError for a profile without 'rol'
ReglaAskedMaster(c, o) ==
  IF c.m = t_usuario
  THEN LET t1 == << enviar_mensaje_telegram(Txt("saludo"), Vacio, Vacio, Vacio, Vacio),
                    Sleep(1) >>
       IN  IF "rol" \notin DOMAIN c.u
           THEN [R0(c) EXCEPT !.abort = TRUE, !.traza = t1]
           ELSE [R0(c) EXCEPT
                   !.traza = t1,
                   !.text = Txt("pide_nombre"),
                   !.u = Put(c.u, [step |-> "askedWelcome"])]
  ELSE IF c.m = t_asociado
  THEN LET t1 == << enviar_mensaje_telegram(Txt("pide_area"), Vacio, Vacio, Vacio, OpcionesArea) >>
       IN  IF "rol" \notin DOMAIN c.u
           THEN [R0(c) EXCEPT !.abort = TRUE, !.traza = t1]
           ELSE [R0(c) EXCEPT
                   !.traza = t1,
                   !.opciones = OpcionesArea,
                   !.u = Put(c.u, [historial |-> agregar_opciones(Hist(c.u), OpcionesArea, "askedAdmin"),
                                   step |-> "askedAdmin"])]
  ELSE IF c.m = t_desarrollador /\ c.developer = "ON"
  THEN IF "rol" \notin DOMAIN c.u
       THEN [R0(c) EXCEPT !.abort = TRUE]
       ELSE [R0(c) EXCEPT
               !.text = Txt("hola_gandalf"),
               !.u = Put(c.u, [step |-> "waitForQuestion", modo |-> "gandalf"])]
  ELSE IF c.m = t_master
  THEN [R0(c) EXCEPT
          !.text = Txt("hola_maestro"),
          !.u = Put(c.u, [step |-> "askedTrainer"])]
  ELSE R0(c)

\* the key of the shared instructions record
ClaveInstrucciones == "deyna"

\* askedTrainer as it would be if it closed the conversation with the step
\* 'end' that askedOnlyName stores, instead of going back to master
ReglaAskedTrainerEnd(c, o) ==
  [R0(c) EXCEPT
     !.traza = << enviar_mensaje_telegram(Txt("memorizando"), Vacio, Vacio, Vacio, Vacio) >>,
     !.text = Txt("sin_instrucciones"),
     !.u = Put(c.u, [step |-> "end"])]

\* lines 1165-1179
ReglaAskedTrainer(c, o) ==
  LET t1 == << enviar_mensaje_telegram(Txt("memorizando"), Vacio, Vacio, Vacio, Vacio) >>
  IN  IF /\ ClaveInstrucciones \in DOMAIN c.db
         /\ "instrucciones" \in DOMAIN c.db[ClaveInstrucciones]
      THEN LET user_data == c.db[ClaveInstrucciones]
           IN  [R0(c) EXCEPT
                  !.traza = t1 \o << Save(ClaveInstrucciones), Sleep(1),
                                     Call("pregunta_a_chatgpt",
                                          [mensaje |-> t_reborn, model |-> ModeloDe(Vacio),
                                           reply |-> o.gpt]) >>,
                  !.db = (ClaveInstrucciones :>
                            Put(user_data, [instrucciones |->
                                  user_data.instrucciones \o <<"\n">> \o c.m])),
                  !.text = Txt("actualizada"),
                  !.u = Put(c.u, [step |-> "master"])]
      ELSE [R0(c) EXCEPT !.traza = t1,
                         !.text = Txt("sin_instrucciones"),
                         !.u = Put(c.u, [step |-> "master"])]

\* lines 1181-1187
ReglaGandalf(c, o) ==
  [R0(c) EXCEPT
     !.traza = << enviar_mensaje_telegram(Txt("adelante"), Vacio, Vacio, Vacio, Vacio) >>,
     !.u = Put(c.u, [step |-> "waitForQuestion"])]

\* what lines 1208-1223 / 1229-1245 do with the answer e of elegir_documento;
\* pdf_file is the file name of the single-document case
TrasElegir(c, u, e, pdf_file) ==
  LET u1 == Put(u, [base_path |-> e.base_path])
  IN  IF e.tipo = "list"
      THEN LET opciones == SetToSeq(DOMAIN e.documento)
           IN  [R0(c) EXCEPT
                  !.text = Txt("pide_archivo"),
                  !.opciones = opciones,
                  !.u = Put(u1, [documents |-> e.documento,
                                 historial |-> agregar_opciones(Hist(u1), opciones,
                                                                "document_choice"),
                                 step |-> "document_choice"])]
      ELSE IF e.tipo = "single"
      THEN [R0(c) EXCEPT
              !.text = Txt("aqui_documento"),
              !.url_pdf = e.base_path \o e.documento,
              !.pdf_file = pdf_file,
              !.u = Put(u1, [step |-> "start"])]
      ELSE [R0(c) EXCEPT !.text = Txt("opcion_no_valida"), !.u = u1]

\* lines 1188-1225
ReglaSubCategorySelection(c, o) ==
  IF "categoria" \notin DOMAIN c.u
  THEN [R0(c) EXCEPT !.abort = TRUE]
  ELSE IF c.u.categoria \in {t_administracion, t_riesgos, t_soporte_al_cliente}
  THEN LET u1 == Put(c.u, [subcategoria |-> c.m])
       IN  IF c.m \in {t_condicionados, t_metodos_pago, t_solicitudes, t_red_clinicas}
           THEN LET opciones == Get(companies, c.m, Vacio)
                IN  [R0(c) EXCEPT
                       !.text = Txt("pide_aseguradora"),
                       !.opciones = opciones,
                       !.u = Put(u1, [step |-> "company_selection",
                                      companies |-> opciones,
                                      historial |-> agregar_opciones(Hist(u1), opciones,
                                                                     "company_selection")])]
           ELSE LET r == TrasElegir(c, u1, o.elegir, Take(c.m, 22) \o t_punto_pdf)
                IN  [r EXCEPT !.traza = << Call("elegir_documento",
                                                [categoria |-> u1.categoria,
                                                 subcategoria |-> c.m,
                                                 compania |-> Vacio]) >>]
  ELSE [R0(c) EXCEPT !.text = Txt("subcategoria_no_reconocida")]

\* lines 1226-1245
ReglaCompanySelection(c, o) ==
  IF ~({"categoria", "subcategoria"} \subseteq DOMAIN c.u)
  THEN [R0(c) EXCEPT !.abort = TRUE]
  ELSE LET r == TrasElegir(c, c.u, o.elegir, c.m \o t_punto_pdf)
       IN  [r EXCEPT !.traza = << Call("elegir_documento",
                                       [categoria |-> c.u.categoria,
                                        subcategoria |-> c.u.subcategoria,
                                        compania |-> c.m]) >>]

\* lines 1259-1274 and 1276-1290: the input names a folder of the catalog
AbrirCarpeta(c, o) ==
  IF "base_path" \notin DOMAIN c.u
  THEN [R0(c) EXCEPT !.abort = TRUE]
  ELSE LET folder_path == RStrip(c.u.base_path, "/") \o <<"/">> \o LStrip(c.m, "/")
           t1 == << Call("obtener_documentos",
                         [folder |-> Replace(folder_path, URL_DOC_ASIST),
                          documentos |-> o.docs]) >>
       IN  IF o.docs # Vacio
           THEN LET fp == IF EndsWith(folder_path, <<"/">>) THEN folder_path
                          ELSE folder_path \o <<"/">>
                    documentos_urls == [doc \in Elems(o.docs) |-> fp \o doc]
                IN  [R0(c) EXCEPT
                       !.traza = t1,
                       !.text = Txt("pide_archivo"),
                       !.opciones = o.docs,
                       !.u = Put(c.u, [documents |-> documentos_urls,
                                       historial |-> agregar_opciones(Hist(c.u), o.docs,
                                                                      "document_choice"),
                                       step |-> "document_choice"])]
           ELSE [R0(c) EXCEPT !.traza = t1,
                              !.text = Txt("documento_no_valido"),
                              !.u = Put(c.u, [step |-> "start"])]

\* lines 1246-1290
ReglaDocumentChoice(c, o) ==
  IF "documents" \notin DOMAIN c.u
  THEN [R0(c) EXCEPT !.abort = TRUE]
  ELSE LET selected_doc == Get(c.u.documents, c.m, Vacio)
       IN  IF selected_doc # Vacio /\ EndsWith(selected_doc, t_pdf)
           THEN [R0(c) EXCEPT
                   !.text = Txt("aqui_documento"),
                   !.url_pdf = selected_doc,
                   !.pdf_file = c.m,
                   !.u = Put(c.u, [step |-> "start"])]
           ELSE AbrirCarpeta(c, o)

\* lines 1291-1294
ReglaFallback(c, o) ==
  [R0(c) EXCEPT !.text = Txt("no_entiendo"),
                !.u = Put(c.u, [step |-> "start", modo |-> "normal"])]

(* ------------------------------------------------------------------ *)
(* Dispatch                                                            *)
(* ------------------------------------------------------------------ *)

\* the steps that have a branch of their own in the if/elif chain
PasosConRegla ==
  {"askedBirthdate", "askedOnlyName", "askedName", "askedEmail", "askedSex",
   "askBenefit", "askedParent", "askedBirthdateParent", "askedFamily", "end",
   "additionalHelp", "endCotiza", "waitForQuestion", "confirmContinue",
   "askedAdmin", "askedMaster", "askedTrainer", "gandalf",
   "sub_category_selection", "company_selection", "document_choice"}

\* the chain as it would be with the branch of line 781 ahead of the branch
\* of line 766: the assistant keyword wins over the master rule
ReglaChatgptAntes(c) ==
  IF /\ c.master # "ON"
     /\ (c.step = "start" \/ c.m = t_hola \/ c.m = t_start)
     /\ ~(c.m = t_chatgpt \/ c.m = t_dr_seguro)
     /\ c.u.modo = "normal"
  THEN "start"
  ELSE IF c.m = t_chatgpt \/ c.m = t_dr_seguro THEN "chatgpt"
  ELSE IF c.step = "master" THEN "master"
  ELSE IF c.step = "askedWelcome" /\ c.u.modo = "normal" THEN "askedWelcome"
  ELSE IF c.step \in PasosConRegla THEN c.step
  ELSE "fallback"

\* the chain as it would be if line 736 did not exclude the assistant
\* keywords: at step start the greeting wins over them
ReglaSinExcepcion(c) ==
  IF /\ c.master # "ON"
     /\ (c.step = "start" \/ c.m = t_hola \/ c.m = t_start)
     /\ c.u.modo = "normal"
  THEN "start"
  ELSE IF c.step = "master" THEN "master"
  ELSE IF c.m = t_chatgpt \/ c.m = t_dr_seguro THEN "chatgpt"
  ELSE IF c.step = "askedWelcome" /\ c.u.modo = "normal" THEN "askedWelcome"
  ELSE IF c.step \in PasosConRegla THEN c.step
  ELSE "fallback"

\* the branch of the if/elif chain of lines 736-1294 that is taken
Regla(c) ==
  IF /\ c.master # "ON"
     /\ (c.step = "start" \/ c.m = t_hola \/ c.m = t_start)
     /\ ~(c.m = t_chatgpt \/ c.m = t_dr_seguro)
     /\ c.u.modo = "normal"
  THEN "start"
  ELSE IF c.step = "master" THEN "master"
  ELSE IF c.m = t_chatgpt \/ c.m = t_dr_seguro THEN "chatgpt"
  ELSE IF c.step = "askedWelcome" /\ c.u.modo = "normal" THEN "askedWelcome"
  ELSE IF c.step \in PasosConRegla THEN c.step
  ELSE "fallback"

\* the body of the branch
Ejecutar(regla, c, o) ==
  CASE regla = "start" -> ReglaStart(c, o)
    [] regla = "master" -> ReglaMaster(c, o)
    [] regla = "chatgpt" -> ReglaChatgpt(c, o)
    [] regla = "askedWelcome" -> ReglaAskedWelcome(c, o)
    [] regla = "askedBirthdate" -> ReglaAskedBirthdate(c, o)
    [] regla = "askedOnlyName" -> ReglaAskedOnlyName(c, o)
    [] regla = "askedName" -> ReglaAskedName(c, o)
    [] regla = "askedEmail" -> ReglaAskedEmail(c, o)
    [] regla = "askedSex" -> ReglaAskedSex(c, o)
    [] regla = "askBenefit" -> ReglaAskBenefit(c, o)
    [] regla = "askedParent" -> ReglaAskedParent(c, o)
    [] regla = "askedBirthdateParent" -> ReglaAskedBirthdateParent(c, o)
    [] regla = "askedFamily" -> ReglaAskedFamily(c, o)
    [] regla = "end" -> ReglaEnd(c, o)
    [] regla = "additionalHelp" -> ReglaAdditionalHelp(c, o)
    [] regla = "endCotiza" -> ReglaEndCotiza(c, o)
    [] regla = "waitForQuestion" -> ReglaWaitForQuestion(c, o)
    [] regla = "confirmContinue" -> ReglaConfirmContinue(c, o)
    [] regla = "askedAdmin" -> ReglaAskedAdmin(c, o)
    [] regla = "askedMaster" -> ReglaAskedMaster(c, o)
    [] regla = "askedTrainer" -> ReglaAskedTrainer(c, o)
    [] regla = "gandalf" -> ReglaGandalf(c, o)
    [] regla = "sub_category_selection" -> ReglaSubCategorySelection(c, o)
    [] regla = "company_selection" -> ReglaCompanySelection(c, o)
    [] regla = "document_choice" -> ReglaDocumentChoice(c, o)
    [] OTHER -> ReglaFallback(c, o)

(* ------------------------------------------------------------------ *)
(* The handler                                                         *)
(* ------------------------------------------------------------------ *)

\* the table after guardar_usuario(user_id, user_data)
guardar_usuario(db, user_id, user_data) ==
  Put(db, (user_id :> Put(user_data, [userID |-> user_id])))

\* recuperar_usuario: the item, or None (Vacio)
recuperar_usuario(db, user_id) == Get(db, user_id, Vacio)

\* the table after the writes w (a dict user id -> item) a rule made
Escrituras(db, w) ==
  [k \in (DOMAIN db) \cup (DOMAIN w) |->
     IF k \in DOMAIN w THEN Put(w[k], [userID |-> k]) ELSE db[k]]

\* the profile of lines 664-671
UsuarioNuevo(nombre) ==
  [step |-> "start", monto |-> "", nombre |-> nombre, fecha |-> <<>>,
   modo |-> "normal", cotiza |-> <<>>]

\* obtener_boton: the callback data when the message carries a callback query
obtener_boton(ev) == IF ev.callback # Vacio THEN ev.callback ELSE ev.text

\* lines 710-713 as they would be if the override were lost: the stored step
\* is the one dispatched
AtajoSinEfecto(usuario, mensaje_decoded) == usuario

\* lines 710-713: the profile after the shortcut override
Atajo(usuario, mensaje_decoded) ==
  IF "historial" \in DOMAIN usuario /\ mensaje_decoded \in DOMAIN usuario.historial
  THEN Put(usuario, [step |-> usuario.historial[mensaje_decoded]])
  ELSE usuario

\* lines 715-717 as they would be without the test of the master flag:
\* every profile at start is sent to the master rule
DesvioSinGuarda(usuario, master) ==
  IF usuario.step = "start"
  THEN Put(usuario, [step |-> "master"])
  ELSE usuario

\* lines 715-717: master profiles are sent from start to the master rule
DesvioMaster(usuario, master) ==
  IF master = "ON" /\ usuario.step = "start"
  THEN Put(usuario, [step |-> "master"])
  ELSE usuario

\* lines 664-717: the context in which the rule of the turn is chosen
Contexto(db, ev) ==
  LET sender == ev.chat_id
      profile_name == ev.first_name \o <<" ">> \o ev.last_name
      guardado == recuperar_usuario(db, sender)
      usuario == IF guardado # Vacio THEN guardado
                 ELSE IF profile_name = <<>> THEN UsuarioNuevo(<<>>)
                 ELSE UsuarioNuevo(profile_name)
      master == Get(usuario, "master", "OFF")
      mensaje_decoded == Lower(obtener_boton(ev))
      u == DesvioMaster(Atajo(usuario, mensaje_decoded), master)
  IN  [id |-> sender,
       db |-> IF guardado # Vacio THEN db ELSE guardar_usuario(db, sender, usuario),
       nuevo |-> guardado = Vacio,
       step0 |-> usuario.step,
       u |-> u,
       step |-> u.step,
       nombre |-> IF profile_name # <<>> /\ usuario.nombre = <<>>
                  THEN profile_name ELSE usuario.nombre,
       rol |-> Get(usuario, "rol", "user"),
       master |-> master,
       developer |-> Get(usuario, "developer", "OFF"),
       m |-> mensaje_decoded]

\* every request with a body is handled as a chat turn
ValidoSiempre(ev) == TRUE

\* a request is handled as a chat turn only with a chat id and a text (639)
Valido(ev) == ev.chat_id # "" /\ ev.text # <<>>

\* lines 1295-1304: the pending text is sent and the profile is saved, unless
\* the rule raised; r is what the rule of the turn yields
Cierre(db, c, regla, r) ==
  [db |-> IF r.abort THEN Escrituras(c.db, r.db)
          ELSE guardar_usuario(Escrituras(c.db, r.db), c.id, r.u),
   turno |-> [op |-> "chat", id |-> c.id, valido |-> TRUE, nuevo |-> c.nuevo,
              m |-> c.m, step0 |-> c.step0, step |-> c.step, regla |-> regla,
              traza |-> (IF c.nuevo THEN << Save(c.id) >> ELSE <<>>)
                        \o r.traza
                        \o (IF r.abort THEN <<>>
                            ELSE IF r.text # SinTexto
                            THEN << enviar_mensaje_telegram(r.text, r.botones, r.url_pdf,
                                                            r.pdf_file, r.opciones),
                                    Save(c.id) >>
                            ELSE << Save(c.id) >>),
              abort |-> r.abort]]

\* lines 736-1294: the branch taken in the context c runs
Despacho(db, c, regla, o) == Cierre(db, c, regla, Ejecutar(regla, c, o))

\* what a request with a body leaves behind: the table and the record of
\* the turn (lines 628-1304)
lambda_handler(db, ev, o) ==
  IF ~Valido(ev)
  THEN [db |-> db,
        turno |-> [op |-> "chat", id |-> ev.chat_id, valido |-> FALSE,
                   nuevo |-> FALSE, m |-> <<>>, step0 |-> "", step |-> "",
                   regla |-> "", traza |-> <<>>, abort |-> FALSE]]
  ELSE Despacho(db, Contexto(db, ev), Regla(Contexto(db, ev)), o)

(* ------------------------------------------------------------------ *)
(* The environment: senders, messages, collaborator answers            *)
(* ------------------------------------------------------------------ *)

Senders == {"u1"}

\* the texts a sender types in the quoting conversation
MensajesCotizar ==
  {m_Hola, t_chatgpt, L_Si, t_no, t_continuar, t_volver, t_cotiza, m_fecha,
   m_fecha_imposible, m_fecha_iso, m_correo, m_Madre, m_x}

\* the texts an associate types in the document conversation
MensajesAdmin ==
  {m_Hola, L_Administracion, L_Hablar_con_TUBOT, L_Red_clinicas, L_Aranceles,
   L_Compania1, m_A_pdf, m_b_pdf, m_sub}

\* the texts a master or developer types
MensajesMaster ==
  {m_Hola, t_start, t_chatgpt, t_dr_seguro, L_Usuario, L_Asociado, L_Master,
   L_Desarrollador, t_no, m_x}

\* the callback data of the buttons pressed (ids of the botones dicts)
Callbacks == {L_Si, <<"C", "o", "t", "i", "z", "a">>}

\* a message with a text
Mensaje(s, t) ==
  [chat_id |-> s, text |-> t, first_name |-> <<>>, last_name |-> <<>>,
   callback |-> Vacio]

\* a message of an account that has a display name
MensajeDe(s, t, n) == [Mensaje(s, t) EXCEPT !.first_name = n]

\* a button press
Pulsacion(s, b) == [Mensaje(s, m_x) EXCEPT !.callback = b]

\* requests without a chat id or without a text
Malformados == {Mensaje("", m_Hola), Mensaje("u1", <<>>)}

\* inbound events of the quoting conversation
EventosCotizar ==
  {Mensaje(s, t) : s \in Senders, t \in MensajesCotizar}
  \cup {Pulsacion(s, b) : s \in Senders, b \in Callbacks}
  \cup Malformados

\* inbound events of the document conversation
EventosAdmin == {Mensaje(s, t) : s \in Senders, t \in MensajesAdmin}

\* inbound events of the master conversation
EventosMaster ==
  {Mensaje(s, t) : s \in Senders, t \in MensajesMaster}
  \cup {MensajeDe(s, m_Hola, m_Ana) : s \in Senders}

\* the texts the model lets a rule that stores its input verbatim receive
Admisible(m, regla) ==
  CASE regla = "askedSex" -> m \in {Lower(m_M), m_x}
    [] regla \in {"askedWelcome", "askedOnlyName", "askedName"} -> m = Lower(m_Ana)
    [] regla = "askedTrainer" -> m = m_x
    [] regla = "sub_category_selection" ->
         m \in {Lower(L_Red_clinicas), Lower(L_Aranceles), m_x}
    [] OTHER -> TRUE

\* the folder the document catalog serves, and what elegir_documento answers
BaseDocs == URL_DOC_ASIST \o <<"r", "/">>

ElegirLista ==
  [tipo |-> "list", base_path |-> BaseDocs,
   documento |-> (m_A_pdf :> (BaseDocs \o m_A_pdf)) @@ (m_sub :> (BaseDocs \o m_sub))]

ElegirUno == [tipo |-> "single", base_path |-> BaseDocs, documento |-> m_r_pdf]

ElegirNada == [tipo |-> "none", base_path |-> BaseDocs, documento |-> Vacio]

\* the answers of the assistant
Respuestas == {TOKEN_START, TOKEN_END, m_ok}

O0 ==
  [cot1 |-> <<>>, pdf1 |-> TRUE, cot2 |-> <<>>, pdf2 |-> TRUE, ben |-> <<>>,
   gpt |-> m_ok, elegir |-> ElegirNada, docs |-> Vacio]

\* the answers the collaborators can give in a turn that takes the rule
OraculosDe(regla) ==
  CASE regla = "askedFamily" ->
         {[O0 EXCEPT !.cot1 = a, !.pdf1 = b, !.cot2 = d, !.pdf2 = e] :
            a \in {<<>>, id_7}, b \in BOOLEAN, d \in {<<>>, id_8}, e \in BOOLEAN}
    [] regla = "askedBirthdateParent" -> {[O0 EXCEPT !.ben = a] : a \in {<<>>, id_b}}
    [] regla \in {"waitForQuestion", "additionalHelp"} ->
         {[O0 EXCEPT !.gpt = a] : a \in Respuestas}
    [] regla \in {"sub_category_selection", "company_selection"} ->
         {[O0 EXCEPT !.elegir = a] : a \in {ElegirLista, ElegirUno, ElegirNada}}
    [] regla = "document_choice" ->
         {[O0 EXCEPT !.docs = a] : a \in {Vacio, <<m_b_pdf>>}}
    [] OTHER -> {O0}

(* ------------------------------------------------------------------ *)
(* State and actions                                                   *)
(* ------------------------------------------------------------------ *)

VARIABLES
  tabla,   \* the DynamoDB table 'telegram': user id -> item
  turno    \* the last request handled: its input, rule and events

vars == <<tabla, turno>>

\* the record of a request that is not a chat turn
Admin(op, id) ==
  [op |-> op, id |-> id, valido |-> TRUE, nuevo |-> FALSE, m |-> <<>>,
   step0 |-> "", step |-> "", regla |-> "", traza |-> <<>>, abort |-> FALSE]

HistorialInicial == (t_hola :> "start") @@ (t_start :> "start")

ClavesBorradas == {"bcuenta", "documents", "companies", "opciones", "base_path"}

\* no sender has written yet
Init ==
  /\ tabla = Vacio
  /\ turno = Admin("init", "")

\* as Init, with or without the shared instructions record in the table
InitOperador ==
  /\ tabla \in {Vacio,
                (ClaveInstrucciones :>
                   [userID |-> ClaveInstrucciones, instrucciones |-> <<>>])}
  /\ turno = Admin("init", "")

\* the size the model lets the growing values reach
Acotado(c, regla) ==
  /\ regla = "askedBirthdateParent" /\ validar_fecha(c.m).ok /\ "bcuenta" \in DOMAIN c.u
       => c.u.bcuenta < MaxBcuenta
  /\ regla = "askedTrainer" /\ ClaveInstrucciones \in DOMAIN c.db
       => Len(c.db[ClaveInstrucciones].instrucciones) < 2 * MaxInstrucciones

\* the turns the model takes: the input is one the rule may receive and the
\* growing values stay in their bounds
EnCota(c, regla) == Admisible(c.m, regla) /\ Acotado(c, regla)

\* the request leaves r behind
Deja(r) == tabla' = r.db /\ turno' = r.turno

\* POST with a body: one chat turn (lines 628-1304)
Chat(ev) ==
  IF Valido(ev)
  THEN /\ EnCota(Contexto(tabla, ev), Regla(Contexto(tabla, ev)))
       /\ \E o \in OraculosDe(Regla(Contexto(tabla, ev))) :
            Deja(lambda_handler(tabla, ev, o))
  ELSE Deja(lambda_handler(tabla, ev, O0))

\* GET ?add_admin=id (lines 578-588)
AddAdmin(id) ==
  /\ tabla' = guardar_usuario(tabla, id,
                [step |-> "start", monto |-> "", nombre |-> <<>>, fecha |-> <<>>,
                 modo |-> "normal", cotiza |-> <<>>, rol |-> "admin",
                 historial |-> HistorialInicial])
  /\ turno' = Admin("add_admin", id)

\* GET ?add_developer=id (lines 590-601)
AddDeveloper(id) ==
  /\ tabla' = guardar_usuario(tabla, id,
                [step |-> "start", monto |-> "", nombre |-> <<>>, fecha |-> <<>>,
                 modo |-> "normal", rol |-> "developer",
                 historial |-> HistorialInicial, developer |-> "ON"])
  /\ turno' = Admin("add_developer", id)

\* GET ?master_id=id (lines 603-615), for a stored profile
MasterId(id) ==
  /\ id \in DOMAIN tabla
  /\ tabla' = guardar_usuario(tabla, id,
                Put(tabla[id], [historial |-> HistorialInicial, master |-> "ON",
                                modo |-> "normal"]))
  /\ turno' = Admin("master_id", id)

\* GET ?resetid=id (lines 548-564), for a stored profile
ResetId(id) ==
  /\ id \in DOMAIN tabla
  /\ tabla' = guardar_usuario(tabla, id,
                Del(Put(tabla[id], [step |-> "start", rol |-> "user",
                                    historial |-> HistorialInicial]),
                    ClavesBorradas))
  /\ turno' = Admin("resetid", id)

\* GET ?adminid=id (lines 530-546), for a stored profile
AdminId(id) ==
  /\ id \in DOMAIN tabla
  /\ tabla' = guardar_usuario(tabla, id,
                Del(Put(tabla[id], [step |-> "start", rol |-> "admin",
                                    historial |-> HistorialInicial]),
                    ClavesBorradas))
  /\ turno' = Admin("adminid", id)

\* GET ?setname_id=id&name=n (lines 566-576), for a stored profile
SetName(id, n) ==
  /\ id \in DOMAIN tabla
  /\ tabla' = guardar_usuario(tabla, id, Put(tabla[id], [nombre |-> n]))
  /\ turno' = Admin("setname", id)

\* the quoting conversation of a sender
Next == \E ev \in EventosCotizar : Chat(ev)

Spec == Init /\ [][Next]_vars

\* the operator sets a sender up before the sender's conversation starts
Preparando == turno.op # "chat"

\* the document conversation of a sender, associate or not
NextAdmin ==
  \/ \E ev \in EventosAdmin : Chat(ev)
  \/ \E id \in Senders : Preparando /\ AddAdmin(id)
  \/ \E id \in Senders : Preparando /\ AdminId(id)
  \/ \E id \in Senders : Preparando /\ ResetId(id)

SpecAdmin == Init /\ [][NextAdmin]_vars

\* the conversation of a sender with or without the master flag
NextMaster ==
  \/ \E ev \in EventosMaster : Chat(ev)
  \/ \E id \in Senders : Preparando /\ AddAdmin(id)
  \/ \E id \in Senders : Preparando /\ AddDeveloper(id)
  \/ \E id \in Senders : Preparando /\ MasterId(id)
  \/ \E id \in Senders : Preparando /\ SetName(id, m_Ana)

SpecMaster == InitOperador /\ [][NextMaster]_vars

(* ------------------------------------------------------------------ *)
(* agregar_opciones on its own: two menus registered one after the     *)
(* other in the history of a profile, as lines 751, 776, 1127, 1150,   *)
(* 1202, 1212, 1234, 1269 and 1285 register them                       *)
(* ------------------------------------------------------------------ *)

\* labels, two of which differ only in case
Etiquetas == {L_Si, t_si, L_No}

\* option lists of up to two labels
Listas ==
  {<<>>} \cup {<<a>> : a \in Etiquetas} \cup {<<a, b>> : a, b \in Etiquetas}

\* the target steps of the two menus
PasosMenu == {"askedAdmin", "document_choice"}

\* a profile with or without shortcuts, and the two menus to register
InitOpciones ==
  /\ tabla \in {("u1" :> [userID |-> "u1", historial |-> h]) :
                  h \in {Vacio, HistorialInicial}}
  /\ turno \in {[op |-> "opciones", A |-> a, sA |-> x, B |-> b, sB |-> y, n |-> 0] :
                  a \in Listas, b \in Listas, x \in PasosMenu, y \in PasosMenu}

\* usuario['historial'] = agregar_opciones(usuario.get('historial', {}), A, sA)
RegistrarA ==
  /\ turno.n = 0
  /\ tabla' = [tabla EXCEPT
                 !["u1"].historial = agregar_opciones(Hist(tabla["u1"]), turno.A, turno.sA)]
  /\ turno' = [turno EXCEPT !.n = 1]

\* usuario['historial'] = agregar_opciones(usuario.get('historial', {}), B, sB)
RegistrarB ==
  /\ turno.n = 1
  /\ tabla' = [tabla EXCEPT
                 !["u1"].historial = agregar_opciones(Hist(tabla["u1"]), turno.B, turno.sB)]
  /\ turno' = [turno EXCEPT !.n = 2]

NextOpciones == RegistrarA \/ RegistrarB

SpecOpciones == InitOpciones /\ [][NextOpciones]_vars

(* ------------------------------------------------------------------ *)
(* dividir_mensaje on its own: every text of letters, spaces and full  *)
(* stops up to MaxTexto characters, every limit from 1 to MaxCorte     *)
(* ------------------------------------------------------------------ *)

\* a letter, the space and the sentence terminator
Alfabeto == {"a", " ", "."}

\* the texts of at most n characters
Textos(n) == UNION {[1..k -> Alfabeto] : k \in 0..n}

\* a text and a limit, not yet segmented
InitDividir ==
  /\ tabla = Vacio
  /\ turno \in {[op |-> "dividir", mensaje |-> s, max |-> k, n |-> 0,
                 fin |-> FALSE, trozos |-> <<>>] :
                  s \in Textos(MaxTexto), k \in 1..MaxCorte}

\* mensajes = dividir_mensaje(mensaje, max): fin tells whether the call
\* returns
Dividir ==
  /\ turno.op = "dividir" /\ turno.n = 0
  /\ turno' = [turno EXCEPT !.n = 1,
                            !.fin = dividir_mensaje(turno.mensaje, turno.max).fin,
                            !.trozos = dividir_mensaje(turno.mensaje, turno.max).trozos]
  /\ tabla' = tabla

NextDividir == Dividir

SpecDividir == InitDividir /\ [][NextDividir]_vars

(* ------------------------------------------------------------------ *)
(* Long assistant replies: questions at waitForQuestion answered with  *)
(* 3500 characters                                                     *)
(* ------------------------------------------------------------------ *)

\* a reply of 3500 characters: letters, with the separator sep at every
\* k-th position
RespuestaLarga(k, sep) == [i \in 1..3500 |-> IF i % k = 0 THEN sep ELSE "a"]

\* the spacings of the separators: 20, 40, ... up to beyond the limit
Periodos == {20 * i : i \in 1..MaxPeriodos}

\* the sender types 'chatgpt': the assistant jump (lines 781-783)
Saltar == Chat(Mensaje("u1", t_chatgpt))

\* the sender asks a question at waitForQuestion and the assistant answers
\* with reply (lines 1073-1099)
Pregunta(reply) ==
  /\ "u1" \in DOMAIN tabla
  /\ tabla["u1"].step = "waitForQuestion"
  /\ Deja(lambda_handler(tabla, Mensaje("u1", m_x), [O0 EXCEPT !.gpt = reply]))

NextLargas ==
  \/ Saltar
  \/ \E k \in Periodos, sep \in {" ", "."} : Pregunta(RespuestaLarga(k, sep))

SpecLargas == Init /\ [][NextLargas]_vars

(* ------------------------------------------------------------------ *)
(* Assistant conversations of stored profiles with a model override   *)
(* ------------------------------------------------------------------ *)

\* the 'model' attribute an operator gave the item: none, empty, blank or
\* a model name
ModelosGuardados == {Vacio, [model |-> <<>>], [model |-> <<" ">>], [model |-> m_gpt4]}

\* the stored profile of a regular user (line 671) or of a developer
\* (lines 591-593), with the model attribute
InitModelo ==
  /\ tabla \in {guardar_usuario(Vacio, "u1", Put(u, mo)) :
                  u \in {UsuarioNuevo(<<" ">>),
                         [step |-> "start", monto |-> "", nombre |-> <<>>, fecha |-> <<>>,
                          modo |-> "normal", rol |-> "developer",
                          historial |-> HistorialInicial, developer |-> "ON"]},
                  mo \in ModelosGuardados}
  /\ turno = Admin("init", "")

\* the texts of an assistant conversation
MensajesModelo == {m_Hola, t_chatgpt, L_Si, t_no, t_continuar, m_x}

NextModelo == \E t \in MensajesModelo : Chat(Mensaje("u1", t))

SpecModelo == InitModelo /\ [][NextModelo]_vars

(* ------------------------------------------------------------------ *)
(* Texts that differ in letter case or in surrounding whitespace       *)
(* ------------------------------------------------------------------ *)

\* the texts of the first steps of the conversation, some of them typed
\* with another letter case or with a space after them
MensajesNormaliza ==
  {m_Hola, t_hola, m_hola_fin, m_Ana, m_fecha, m_fecha_fin, m_correo, m_M, m_x}

NextNormaliza == \E t \in MensajesNormaliza : Chat(Mensaje("u1", t))

SpecNormaliza == Init /\ [][NextNormaliza]_vars

(* ------------------------------------------------------------------ *)
(* Two askedTrainer turns of two senders, processed concurrently       *)
(* ------------------------------------------------------------------ *)

\* the two masters that train the assistant at the same time
Entrenadores == {"u1", "u2"}

\* the texts each of them may send
TextosDe(s) == IF s = "u1" THEN {m_x, m_ok} ELSE {t_no, m_sub}

\* the instructions the shared record holds before the two turns
InstruccionesPrevias == {<<>>, <<"i">>}

\* the stored profile of a master at step askedTrainer
PerfilEntrenador(s) ==
  [userID |-> s, step |-> "askedTrainer", monto |-> "", nombre |-> <<" ">>,
   fecha |-> <<>>, modo |-> "normal", cotiza |-> <<>>, poliza |-> "Salud",
   master |-> "ON", historial |-> HistorialInicial]

\* both requests have arrived: each handler has its text and has read
\* nothing yet
InitTrainer ==
  \E i \in InstruccionesPrevias, a \in TextosDe("u1"), b \in TextosDe("u2") :
    /\ tabla = [k \in Entrenadores \cup {ClaveInstrucciones} |->
                  IF k = ClaveInstrucciones
                  THEN [userID |-> ClaveInstrucciones, instrucciones |-> i]
                  ELSE PerfilEntrenador(k)]
    /\ turno = [op |-> "trainer",
                pc |-> [s \in Entrenadores |-> "recibido"],
                m |-> [s \in Entrenadores |-> IF s = "u1" THEN a ELSE b],
                user_data |-> [s \in Entrenadores |-> Vacio],
                previo |-> i,
                solapado |-> FALSE]

\* lines 1166-1168: the handler of s sends 'Memorizando' and reads the
\* shared record; the read overlaps when another handler has read the
\* record and not yet written it
Leer(s) ==
  /\ turno.pc[s] = "recibido"
  /\ turno' = [turno EXCEPT
                 !.pc[s] = "leido",
                 !.user_data[s] = recuperar_usuario(tabla, ClaveInstrucciones),
                 !.solapado = @ \/ \E r \in Entrenadores \ {s} : turno.pc[r] = "leido"]
  /\ UNCHANGED tabla

\* lines 1170-1172: the handler of s appends its text to the copy it read
\* and writes the copy back with put_item
Escribir(s) ==
  /\ turno.pc[s] = "leido"
  /\ tabla' = guardar_usuario(tabla, ClaveInstrucciones,
                 Put(turno.user_data[s],
                     [instrucciones |->
                        turno.user_data[s].instrucciones \o <<"\n">> \o turno.m[s]]))
  /\ turno' = [turno EXCEPT !.pc[s] = "escrito"]

\* lines 1173-1176 and 1295-1299: after the refresh call the handler of s
\* answers and writes the profile of s with step master
Terminar(s) ==
  /\ turno.pc[s] = "escrito"
  /\ tabla' = guardar_usuario(tabla, s, Put(tabla[s], [step |-> "master"]))
  /\ turno' = [turno EXCEPT !.pc[s] = "fin"]

NextTrainer == \E s \in Entrenadores : Leer(s) \/ Escribir(s) \/ Terminar(s)

SpecTrainer == InitTrainer /\ [][NextTrainer]_vars

(* ------------------------------------------------------------------ *)
(* Properties                                                          *)
(* ------------------------------------------------------------------ *)

\* the outbound actions of a turn, in order
Envios(traza) == SelectSeq(traza, LAMBDA e : e.e = "send")

\* the collaborator calls of a turn, in order
Llamadas(traza) == SelectSeq(traza, LAMBDA e : e.e = "call")

\* the labels a menu shows: the labels of its buttons or its option list
EtiquetasDe(e) ==
  IF e.tipo = "botones" THEN {e.botones[k] : k \in DOMAIN e.botones}
  ELSE IF e.tipo = "opciones" THEN Elems(e.opciones)
  ELSE {}

\* the last request was a well-formed chat turn that ran to its end
TurnoHecho == turno.op = "chat" /\ turno.valido /\ ~turno.abort

\* the request of this step is a well-formed chat turn of a stored profile
TurnoDe == turno'.op = "chat" /\ turno'.valido /\ turno'.id \in DOMAIN tabla

\* the step the shortcut override of this step's turn resolves
PasoResuelto ==
  LET p == tabla[turno'.id]
  IN  IF turno'.m \in DOMAIN Hist(p) THEN Hist(p)[turno'.m] ELSE p.step

\* C1: in every well-formed turn in which no rule of the resolved step
\* matches the input (waitForQuestion with 'continuar'; additionalHelp with
\* a mode other than chatgpt and an input that is none of no, si, volver,
\* volver a cotizar, hola...; a step that has no branch), the turn emits the
\* restart prompt and ends with step start and mode normal.
C1_UniversalFallback ==
  [][ ( /\ TurnoDe
        /\ \/ turno'.regla = "fallback"
           \/ turno'.regla = "waitForQuestion" /\ turno'.m = t_continuar
           \/ /\ turno'.regla = "additionalHelp"
              /\ tabla[turno'.id].modo # "chatgpt"
              /\ turno'.m \notin {t_no, t_si, t_volver, t_volver_a_cotizar}
              /\ ~StartsWith(turno'.m, t_hola) )
      => /\ Envios(turno'.traza) # <<>>
         /\ Envios(turno'.traza)[Len(Envios(turno'.traza))].msg = Txt("no_entiendo")
         /\ tabla'[turno'.id].step = "start"
         /\ tabla'[turno'.id].modo = "normal" ]_vars

\* the rule the chain selects for the profile of this step's turn when it
\* is dispatched with step s
ReglaCon(s) ==
  LET p == tabla[turno'.id]
  IN  Regla([step |-> s, m |-> turno'.m, master |-> Get(p, "master", "OFF"), u |-> p])

\* C2 as stated: in every turn whose input is a key of the profile's
\* history, the rule that fires is selected with the mapped step.
C2_MappedStepDispatched ==
  [][ (TurnoDe /\ turno'.m \in DOMAIN Hist(tabla[turno'.id]))
      => /\ turno'.step = Hist(tabla[turno'.id])[turno'.m]
         /\ turno'.regla = ReglaCon(Hist(tabla[turno'.id])[turno'.m]) ]_vars

\* C2: in every turn whose input is a key of the profile's history, the
\* stored step is replaced by the mapped step before the rule is selected,
\* and the rule that fires is selected with the mapped step, not the stored
\* one; when the master flag is on and the mapped step is start, the step
\* dispatched is master.
C2_OverrideBeforeDispatch ==
  [][ (TurnoDe /\ turno'.m \in DOMAIN Hist(tabla[turno'.id]))
      => LET p == tabla[turno'.id]
             mapped == Hist(p)[turno'.m]
             s == IF Get(p, "master", "OFF") = "ON" /\ mapped = "start"
                  THEN "master" ELSE mapped
         IN  turno'.step = s /\ turno'.regla = ReglaCon(s) ]_vars

\* a turn whose input was a shortcut to a step other than the stored one,
\* which the rule of the mapped step handled
C2_Witness ==
  /\ TurnoHecho
  /\ turno.step0 = "askedAdmin" /\ turno.m = t_hola
  /\ turno.step = "start" /\ turno.regla = "start"

\* C3: in every chat turn the keys of the profile's history after the turn
\* include the keys before the turn, and every key is lower-cased.
C3_HistoryAdditive ==
  [][ TurnoDe
      => /\ DOMAIN Hist(tabla[turno'.id]) \subseteq DOMAIN Hist(tabla'[turno'.id])
         /\ \A k \in DOMAIN Hist(tabla'[turno'.id]) : Lower(k) = k ]_vars

\* a history that holds the labels of two menus shown in different turns
C3_Witness ==
  /\ TurnoHecho
  /\ turno.regla = "sub_category_selection"
  /\ {t_hola, t_administracion, Lower(L_Aranceles), Lower(L_Compania1)}
       \subseteq DOMAIN Hist(tabla[turno.id])

\* the step the history of profile u1 resolves a label to
Resuelve(etiqueta) == Get(Hist(tabla["u1"]), Lower(etiqueta), "")

\* the two menus are registered
Registrados == turno.op = "opciones" /\ turno.n = 2

\* C4 as stated: after registering menu A and then menu B, every label of A
\* resolves to sA and every label of B resolves to sB, also when the lists
\* share a label.
C4_BothResolve ==
  Registrados
    => /\ \A a \in Elems(turno.A) : Resuelve(a) = turno.sA
       /\ \A b \in Elems(turno.B) : Resuelve(b) = turno.sB

\* C4: after registering menu A and then menu B, every label of B resolves
\* to sB, and every label of A that is not, case folded, a label of B still
\* resolves to sA; the keys the history held before stay.
C4_LaterMenuWins ==
  Registrados
    => /\ \A b \in Elems(turno.B) : Resuelve(b) = turno.sB
       /\ \A a \in Elems(turno.A) :
            Lower(a) \notin {Lower(b) : b \in Elems(turno.B)}
              => Resuelve(a) = turno.sA

\* two menus with different targets are registered, one label of A is, case
\* folded, a label of B and another is not
C4_Witness ==
  /\ Registrados
  /\ turno.A = <<L_Si, L_No>> /\ turno.B = <<t_si>> /\ turno.sA # turno.sB
  /\ Resuelve(L_No) = turno.sA /\ Resuelve(L_Si) = turno.sB

\* the menus a turn showed whose labels are all lower-cased keys of the
\* history the profile has at the end of the turn
MenuRegistrado(e) ==
  \A l \in EtiquetasDe(e) : Lower(l) \in DOMAIN Hist(tabla[turno.id])

\* C5 as stated: whenever a turn presents a menu, as buttons or as an option
\* list, every label of the menu is at the end of the turn a lower-cased key
\* of the profile's history.
C5_EveryMenuRegistered ==
  TurnoHecho
    => \A i \in DOMAIN turno.traza :
         turno.traza[i].e = "send" => MenuRegistrado(turno.traza[i])

\* C5: whenever a turn presents an option list, every label of the list is
\* at the end of the turn a lower-cased key of the profile's history, mapped
\* to a step; the labels of buttons are not registered.
C5_OptionListsRegistered ==
  TurnoHecho
    => \A i \in DOMAIN turno.traza :
         (turno.traza[i].e = "send" /\ turno.traza[i].tipo = "opciones")
           => /\ MenuRegistrado(turno.traza[i])
              /\ \A l \in EtiquetasDe(turno.traza[i]) :
                   Hist(tabla[turno.id])[Lower(l)] \in PasosConRegla \cup {"start"}

\* a turn showed the role menu and its labels are keys of the history
C5_Witness ==
  /\ TurnoHecho
  /\ turno.regla = "master"
  /\ \E i \in DOMAIN turno.traza :
       /\ turno.traza[i].e = "send" /\ turno.traza[i].tipo = "opciones"
       /\ turno.traza[i].opciones = OpcionesRol("ON")
  /\ Hist(tabla[turno.id])[t_desarrollador] = "askedMaster"

\* C6: when a sender with no stored profile sends 'Hola', a profile is
\* created and the turn ends with step askedWelcome, having emitted exactly
\* two actions: the welcome text, then the request for the name.
C6_FirstContact ==
  (turno.op = "chat" /\ turno.valido /\ turno.nuevo /\ turno.m = t_hola)
    => /\ turno.id \in DOMAIN tabla
       /\ tabla[turno.id].step = "askedWelcome"
       /\ Envios(turno.traza) =
            << enviar_mensaje_telegram(Txt("saludo"), Vacio, Vacio, Vacio, Vacio),
               enviar_mensaje_telegram(Txt("pide_nombre"), Vacio, Vacio, Vacio, Vacio) >>

\* the area menu is registered in the history the profile has after this step
AreaRegistrada ==
  \A l \in Elems(OpcionesArea) :
    Get(Hist(tabla'[turno'.id]), Lower(l), "") = "askedAdmin"

\* C7: the start rule branches on name and role: an unnamed profile ends at
\* askedWelcome; a named admin gets the area menu, its four labels
\* registered in history mapped to askedAdmin, and ends at askedAdmin; a
\* named developer ends at waitForQuestion with mode gandalf; a named
\* regular user ends at askedBirthdate; in every branch the quotation id is
\* reset to empty.
C7_StartBranches ==
  [][ (TurnoDe /\ turno'.regla = "start")
      => LET p == tabla[turno'.id]
             q == tabla'[turno'.id]
             rol == Get(p, "rol", "user")
         IN  /\ q.cotiza = <<>>
             /\ IF p.nombre = <<>> THEN q.step = "askedWelcome"
                ELSE IF rol = "admin" THEN q.step = "askedAdmin" /\ AreaRegistrada
                ELSE IF rol = "developer"
                THEN q.step = "waitForQuestion" /\ q.modo = "gandalf"
                ELSE q.step = "askedBirthdate" ]_vars

\* the role menu of the master rule is the last action of this step's turn
MenuDeRol ==
  LET p == tabla[turno'.id]
      env == Envios(turno'.traza)
  IN  /\ env # <<>>
      /\ env[Len(env)] =
           enviar_mensaje_telegram(Txt("pide_rol"), Vacio, Vacio, Vacio,
                                   IF Get(p, "developer", "OFF") = "ON"
                                   THEN <<L_Usuario, L_Asociado, L_Master, L_Desarrollador>>
                                   ELSE <<L_Usuario, L_Asociado, L_Master>>)
      /\ \A l \in Elems(env[Len(env)].opciones) :
           Get(Hist(tabla'[turno'.id]), Lower(l), "") = "askedMaster"

\* C8: when the master flag is on and the step resolved by the shortcut
\* override is start, the turn fires the master rule, never the start
\* greeting and never the assistant jump: it presents the role menu (with
\* Desarrollador only when the developer flag is on), registers its labels
\* in history mapped to askedMaster, and ends with step askedMaster,
\* whatever the input and the mode.
C8_MasterRedirect ==
  [][ ( /\ TurnoDe
        /\ Get(tabla[turno'.id], "master", "OFF") = "ON"
        /\ PasoResuelto = "start" )
      => /\ turno'.regla = "master"
         /\ MenuDeRol
         /\ tabla'[turno'.id].step = "askedMaster" ]_vars

\* a master profile at step start sent the assistant keyword and got the
\* role menu
C8_Witness ==
  /\ TurnoHecho
  /\ turno.m = t_chatgpt /\ turno.step0 = "start" /\ turno.regla = "master"
  /\ tabla[turno.id].master = "ON" /\ tabla[turno.id].step = "askedMaster"

\* C9 as stated: a turn whose input is 'chatgpt' or 'dr seguro' ends with
\* step waitForQuestion, whatever the step, the mode and the master flag.
C9_AlwaysJumps ==
  (TurnoHecho /\ turno.m \in {t_chatgpt, t_dr_seguro})
    => tabla[turno.id].step = "waitForQuestion"

\* C9: a turn whose input is 'chatgpt' or 'dr seguro' ends with step
\* waitForQuestion, whatever the step and the mode, unless the master flag
\* is on and the step resolved for the turn is start (or master): then the
\* master rule fires and the turn ends at askedMaster.
C9_AssistantJump ==
  [][ (turno'.op = "chat" /\ turno'.valido /\ turno'.m \in {t_chatgpt, t_dr_seguro})
      => IF /\ turno'.id \in DOMAIN tabla
            /\ Get(tabla[turno'.id], "master", "OFF") = "ON"
            /\ PasoResuelto \in {"start", "master"}
         THEN turno'.regla = "master" /\ tabla'[turno'.id].step = "askedMaster"
         ELSE turno'.regla = "chatgpt" /\ tabla'[turno'.id].step = "waitForQuestion" ]_vars

\* a profile in the middle of another step and in a mode other than normal
\* sent 'dr seguro' and is at waitForQuestion
C9_Witness ==
  /\ TurnoHecho
  /\ turno.m = t_dr_seguro /\ turno.regla = "chatgpt"
  /\ turno.step0 = "additionalHelp"
  /\ tabla[turno.id].modo # "normal"
  /\ tabla[turno.id].step = "waitForQuestion"

\* the input of this step's turn fails the validator of the rule that fired
EntradaInvalida ==
  \/ /\ turno'.regla \in {"askedBirthdate", "askedBirthdateParent"}
     /\ \/ ~validar_fecha(turno'.m).ok
        \/ turno'.m \in {m_fecha_imposible, m_fecha_iso}
  \/ turno'.regla = "askedEmail" /\ ~correo_es_valido(turno'.m)
  \/ turno'.regla = "askedParent" /\ ~parentesco_valido(turno'.m)

\* the input of this step's turn fails the validator of the resolved step
EntradaInvalidaEnPaso ==
  \/ /\ turno'.step \in {"askedBirthdate", "askedBirthdateParent"}
     /\ ~validar_fecha(turno'.m).ok
  \/ turno'.step = "askedEmail" /\ ~correo_es_valido(turno'.m)
  \/ turno'.step = "askedParent" /\ ~parentesco_valido(turno'.m)

\* the fields the four steps collect
CamposRecogidos == {"fecha", "email", "parentesco", "bfecha", "bcuenta"}

\* the re-prompt of each of the four steps
Reprompt(regla) ==
  CASE regla = "askedEmail" -> Txt("correo_invalido")
    [] regla = "askedParent" -> Txt("parentesco_invalido")
    [] OTHER -> Txt("fecha_invalida")

\* step unchanged, nothing stored, no collaborator call, one re-prompt
Recuperacion(paso) ==
  LET p == tabla[turno'.id]
      q == tabla'[turno'.id]
  IN  /\ q.step = p.step
      /\ \A f \in CamposRecogidos :
           /\ f \in DOMAIN p <=> f \in DOMAIN q
           /\ f \in DOMAIN p => p[f] = q[f]
      /\ Llamadas(turno'.traza) = <<>>
      /\ Envios(turno'.traza) =
           << enviar_mensaje_telegram(Reprompt(paso), Vacio, Vacio, Vacio, Vacio) >>

\* C10 as stated: at askedBirthdate, askedEmail, askedParent and
\* askedBirthdateParent every input that fails the step's validator leaves
\* the step unchanged, stores nothing in the field being collected, makes
\* no quoting call and emits exactly one re-prompt.
C10_EveryInvalidInput ==
  [][ (TurnoDe /\ EntradaInvalidaEnPaso) => Recuperacion(turno'.step) ]_vars

\* C10: when the rule of askedBirthdate, askedEmail, askedParent or
\* askedBirthdateParent fires (the input is not taken by the greeting of
\* 'hola' and '/start' or by the assistant keywords) on an input that fails
\* its validator, 31/02/2024 and 2024-12-25 included, the step is unchanged,
\* nothing is stored in the fields being collected, no collaborator is
\* called and exactly one re-prompt is emitted.
C10_InvalidInputRecovery ==
  [][ (TurnoDe /\ EntradaInvalida) => Recuperacion(turno'.regla) ]_vars

\* the impossible date was sent at askedBirthdate and nothing changed
C10_Witness ==
  /\ TurnoHecho
  /\ turno.regla = "askedBirthdate" /\ turno.m = m_fecha_imposible
  /\ tabla[turno.id].step = "askedBirthdate"
  /\ tabla[turno.id].fecha = <<>>
  /\ Len(Envios(turno.traza)) = 1

\* what the askBenefit rule leaves: 'si' asks for the relationship, any
\* other input announces the quote with the Continuar button; no
\* collaborator is called
FinAskBenefit ==
  /\ Llamadas(turno.traza) = <<>>
  /\ IF turno.m = t_si
     THEN /\ tabla[turno.id].step = "askedParent"
          /\ Envios(turno.traza) =
               << enviar_mensaje_telegram(Txt("pide_parentesco"), Vacio, Vacio, Vacio, Vacio) >>
     ELSE /\ tabla[turno.id].step = "askedFamily"
          /\ Envios(turno.traza) =
               << enviar_mensaje_telegram(Txt("no_mas_familiares"), BotonesContinuar,
                                          Vacio, Vacio, Vacio) >>

\* C11 as stated: at step askBenefit, 'si' ends the turn at askedParent with
\* one relationship prompt and every other input ends it at askedFamily with
\* one action carrying the Continuar button; no quote is requested.
C11_EveryInput ==
  (TurnoHecho /\ turno.step = "askBenefit") => FinAskBenefit

\* C11: when the askBenefit rule fires (the input is not taken by the
\* greeting of 'hola' and '/start' or by the assistant keywords), 'si' ends
\* the turn at askedParent with one relationship prompt and every other
\* input ends it at askedFamily with one action carrying the Continuar
\* button; in both cases no collaborator is called.
C11_AskBenefit ==
  (TurnoHecho /\ turno.regla = "askBenefit") => FinAskBenefit

\* 'si' was sent at askBenefit and the relationship was asked for
C11_Witness ==
  /\ TurnoHecho
  /\ turno.regla = "askBenefit" /\ turno.m = t_si
  /\ tabla[turno.id].step = "askedParent"
  /\ tabla[turno.id].beneficiario = "si"
  /\ Len(Envios(turno.traza)) = 1

\* the other branch: 'no' was sent at askBenefit and the Continuar button
\* was shown
C11_WitnessNo ==
  /\ TurnoHecho
  /\ turno.regla = "askBenefit" /\ turno.m = t_no
  /\ tabla[turno.id].step = "askedFamily"

\* the dependent count of a profile, -1 when the profile has none
Cuenta(p) == Get(p, "bcuenta", -1)

\* the dependent count after this step's turn, by the rule that fired:
\* askedSex and askedFamily set it to 0, askedBirthdateParent with a valid
\* date adds one, every other rule leaves it as it was
CuentaTrasRegla ==
  LET antes == Cuenta(tabla[turno'.id])
      despues == Cuenta(tabla'[turno'.id])
  IN  IF turno'.regla \in {"askedSex", "askedFamily"} THEN despues = 0
      ELSE IF /\ turno'.regla = "askedBirthdateParent"
              /\ validar_fecha(turno'.m).ok /\ ~turno'.abort
      THEN despues = antes + 1
      ELSE despues = antes

\* C12 as stated: the dependent count is modified only by askedSex (0),
\* askedBirthdateParent with a valid date (+1) and askedFamily (0), and it
\* is 0 after an askedFamily turn and after the start rule fires on a
\* profile whose flow is in progress.
C12_ZeroAfterRestart ==
  [][ TurnoDe
      => /\ CuentaTrasRegla
         /\ (turno'.regla = "start" /\ "bcuenta" \in DOMAIN tabla[turno'.id])
              => Cuenta(tabla'[turno'.id]) = 0 ]_vars

\* C12: the dependent count is modified only by askedSex (sets it to 0),
\* askedBirthdateParent with a valid date (adds exactly 1) and askedFamily
\* (sets it to 0); every other rule, the start rule included, leaves it as
\* it was, so that it is 0 after an askedFamily turn and after the askedSex
\* turn of a restarted flow.
C12_CountFrame ==
  [][ TurnoDe => CuentaTrasRegla ]_vars

\* a quote was prepared for a profile that had added a dependent, and the
\* count is back to 0
C12_Witness ==
  /\ TurnoHecho
  /\ turno.regla = "askedFamily"
  /\ "bfecha" \in DOMAIN tabla[turno.id]
  /\ tabla[turno.id].bcuenta = 0

\* the flow was restarted after a dependent was added and the count stays
C12_WitnessRestart ==
  /\ TurnoHecho
  /\ turno.regla = "start" /\ turno.step0 = "askBenefit"
  /\ tabla[turno.id].bcuenta = MaxBcuenta

\* the positions of the quote requests in a trace
Cotizaciones(traza) ==
  {i \in DOMAIN traza : traza[i].e = "call" /\ traza[i].svc = "cotizar"}

\* the answer the turn gives for a quotation id: the document when the id
\* is not empty, the apology when it is
RespuestaDe(id) == EnvioCotizacion(id)[1]

\* in the trace, the quote request at position i follows the status message
\* msg and is followed by the answer for the id it returned, before position
\* fin
PeticionEnOrden(traza, i, msg, fin) ==
  /\ \E s \in 1..(i - 1) :
       traza[s] = enviar_mensaje_telegram(Txt(msg), Vacio, Vacio, Vacio, Vacio)
  /\ \E d \in (i + 1)..(fin - 1) : traza[d] = RespuestaDe(traza[i].data.id)

\* what the spec says an askedFamily turn leaves: two quote requests, the
\* primary plan and then the alternate budget, each after its status
\* message and before its document or apology, and the profile in mode
\* chatgpt at waitForQuestion
FinAskedFamily ==
  LET t == turno.traza
      cs == Cotizaciones(t)
  IN  /\ Cardinality(cs) = 2
      /\ \E i, j \in cs :
           /\ i < j
           /\ "monto3" \notin DOMAIN t[i].data /\ t[i].data.monto = "100000"
           /\ "monto3" \in DOMAIN t[j].data /\ t[j].data.monto = "50000"
           /\ PeticionEnOrden(t, i, "enviando_cotizacion", j)
           /\ PeticionEnOrden(t, j, "otras_cotizaciones", Len(t) + 1)
           /\ \E s \in (i + 1)..(j - 1) :
                t[s] = enviar_mensaje_telegram(Txt("otras_cotizaciones"), Vacio, Vacio, Vacio, Vacio)
      /\ tabla[turno.id].modo = "chatgpt"
      /\ tabla[turno.id].step = "waitForQuestion"

\* C13: every turn in which the askedFamily rule fires issues exactly two
\* quote requests, the primary plan first and the alternate budget plan
\* second, each after its status message and before its document (non-empty
\* id) or apology (empty id), and ends with mode chatgpt and step
\* waitForQuestion, whatever the quoting collaborators answer.
C13_TwoQuotes ==
  (turno.op = "chat" /\ turno.valido /\ turno.regla = "askedFamily")
    => FinAskedFamily

\* the same for the turns in which no document render fails
C13_TwoQuotesRendered ==
  (TurnoHecho /\ turno.regla = "askedFamily") => FinAskedFamily

\* an askedFamily turn whose first quote returned no id and whose second
\* returned one
C13_Witness ==
  /\ TurnoHecho /\ turno.regla = "askedFamily"
  /\ \E i, j \in Cotizaciones(turno.traza) :
       i < j /\ turno.traza[i].data.id = <<>> /\ turno.traza[j].data.id = id_8

\* the ids the quote requests of a trace returned, in order
IdsCotizados(traza) ==
  LET ll == SelectSeq(traza, LAMBDA e : e.e = "call" /\ e.svc = "cotizar")
  IN  [k \in DOMAIN ll |-> ll[k].data.id]

\* the last non-empty id of a sequence of ids, empty when there is none
UltimoId(ids) ==
  LET ks == {k \in DOMAIN ids : ids[k] # <<>>}
  IN  IF ks = {} THEN <<>> ELSE ids[CHOOSE k \in ks : \A l \in ks : l <= k]

\* C14: after an askedFamily turn in which a quote was produced, the stored
\* quotation id is the id of the most recently produced quote: the id of
\* the second (alternate) request when it is not empty, else the id of the
\* first.
C14_LatestQuoteStored ==
  ( /\ TurnoHecho /\ turno.regla = "askedFamily"
    /\ UltimoId(IdsCotizados(turno.traza)) # <<>> )
    => tabla[turno.id].cotiza = UltimoId(IdsCotizados(turno.traza))

\* the quotation id is empty until a quote request has returned an id
C14_EmptyUntilQuoted ==
  [][ (TurnoDe /\ tabla[turno'.id].cotiza = <<>> /\ tabla'[turno'.id].cotiza # <<>>)
      => /\ turno'.regla = "askedFamily"
         /\ tabla'[turno'.id].cotiza \in Elems(IdsCotizados(turno'.traza)) ]_vars

\* the turn ran to its end: it emitted an action and its last event is the
\* save of the profile
TurnoCompleto ==
  /\ ~turno.abort
  /\ Envios(turno.traza) # <<>>
  /\ turno.traza[Len(turno.traza)] = Save(turno.id)

\* C15: every well-formed turn that calls a collaborator (quote, document
\* render, add-beneficiary, assistant), whatever the collaborator answers
\* and also when it fails, runs to completion: it emits a user-facing
\* action and its last event is the save of the profile.
C15_NoCollaboratorAbort ==
  (turno.op = "chat" /\ turno.valido /\ Llamadas(turno.traza) # <<>>)
    => TurnoCompleto

\* the same for the turns in which no document render fails
C15_CompleteWhenRendered ==
  ( /\ turno.op = "chat" /\ turno.valido /\ Llamadas(turno.traza) # <<>>
    /\ \A i \in DOMAIN turno.traza :
         (turno.traza[i].e = "call" /\ turno.traza[i].svc = "generar_pdf")
           => turno.traza[i].data.ok )
    => TurnoCompleto

\* the add-beneficiary call of the turn returned an empty id
BeneficiarioFallido ==
  \E i \in DOMAIN turno.traza :
    /\ turno.traza[i].e = "call" /\ turno.traza[i].svc = "agregar_beneficiario"
    /\ turno.traza[i].data.id = <<>>

\* C16: at askedBirthdateParent with a valid date, when the add-beneficiary
\* call returns an empty id, the turn emits an apology (an action other
\* than the question it asks after a successful call) after the call and
\* then proceeds.
C16_ApologyOnFailedDependent ==
  (TurnoHecho /\ turno.regla = "askedBirthdateParent" /\ BeneficiarioFallido)
    => \E i, j \in DOMAIN turno.traza :
         /\ i < j
         /\ turno.traza[i].e = "call" /\ turno.traza[i].svc = "agregar_beneficiario"
         /\ turno.traza[j].e = "send"
         /\ turno.traza[j].msg # Txt("pide_otro_familiar")

\* what the turn does instead: with an empty id it emits what it emits with
\* an id, the question about another dependent, and counts the dependent
C16_FailureIgnored ==
  (TurnoHecho /\ turno.regla = "askedBirthdateParent" /\ Llamadas(turno.traza) # <<>>)
    => /\ Envios(turno.traza) =
            << enviar_mensaje_telegram(Txt("pide_otro_familiar"), BotonesSiNo, Vacio, Vacio, Vacio) >>
       /\ tabla[turno.id].step = "askBenefit"

\* the assistant calls of a trace
Consultas(traza) ==
  SelectSeq(traza, LAMBDA e : e.e = "call" /\ e.svc \in {"pregunta_a_chatgpt", "pregunta_a_gandalf"})

\* one text action per segment of the reply, in segment order, and then the
\* "anything else?" question with the buttons of the role
SegmentosYPregunta(reply, rol) ==
  LET trozos == dividir_mensaje(reply, max_length).trozos
  IN  [i \in 1..(Len(trozos) + 1) |->
         IF i <= Len(trozos)
         THEN enviar_mensaje_telegram(TxtArg("segmento", trozos[i]), Vacio, Vacio, Vacio, Vacio)
         ELSE enviar_mensaje_telegram(Txt("otra_pregunta"), BotonesOtraPregunta(rol),
                                      Vacio, Vacio, Vacio)]

\* what the waitForQuestion rule leaves for a question: one assistant call,
\* the segments of its reply, the "anything else?" question last, and the
\* step additionalHelp
FinWaitForQuestion ==
  /\ Len(Llamadas(turno.traza)) = 1
  /\ Len(Consultas(turno.traza)) = 1
  /\ Consultas(turno.traza)[1].data.mensaje = turno.m
  /\ Envios(turno.traza) =
       SegmentosYPregunta(Consultas(turno.traza)[1].data.reply,
                          Get(tabla[turno.id], "rol", "user"))
  /\ \A i, j \in DOMAIN turno.traza :
       (turno.traza[i].e = "call" /\ turno.traza[j].e = "send") => i < j
  /\ tabla[turno.id].step = "additionalHelp"

Dividido == turno.op = "dividir" /\ turno.n = 1

\* C19: dividir_mensaje returns, with a finite sequence of chunks, for every
\* text and every limit of at least 1, also when the text is longer than
\* the limit and its first limit characters hold no space and no '.'.
C19_SegmentationTotal ==
  Dividido => turno.fin

\* the calls that do return: the text fits, or every window the loop meets
\* holds a space or a '.'; the chunks are then at most as many as the
\* characters of the text, plus one
C19_ReturnsWithSeparators ==
  (Dividido /\ turno.fin)
    => /\ turno.trozos # <<>>
       /\ Len(turno.trozos) <= Len(turno.mensaje) + 1
       /\ Len(turno.trozos[Len(turno.trozos)]) <= turno.max

\* the last position up to max at which the text holds ch, 0 when none
UltimaPos(mensaje, ch, max) ==
  LET ps == {i \in 1..max : mensaje[i] = ch} \cup {0}
  IN  CHOOSE i \in ps : \A j \in ps : j <= i

\* what is left of the text after its first cut
RestoTrasCorte(mensaje, max) ==
  Strip(SubSeq(mensaje, Corte(mensaje, max) + 1, Len(mensaje)))

\* C20: for a text longer than the limit the cut is at the last space of
\* the window; with no space, after the last '.' of the window; with
\* neither, at exactly the limit; and what is left after the cut is
\* shorter than the text.
C20_CutChoice ==
  (Dividido /\ Len(turno.mensaje) > turno.max)
    => LET esp == UltimaPos(turno.mensaje, " ", turno.max)
           pto == UltimaPos(turno.mensaje, ".", turno.max)
       IN  /\ Corte(turno.mensaje, turno.max) =
                (IF esp # 0 THEN esp - 1 ELSE IF pto # 0 THEN pto ELSE turno.max)
           /\ Len(RestoTrasCorte(turno.mensaje, turno.max)) < Len(turno.mensaje)

\* the same for the windows that hold a space or a '.'
C20_CutAtSeparator ==
  ( /\ Dividido /\ Len(turno.mensaje) > turno.max
    /\ \/ UltimaPos(turno.mensaje, " ", turno.max) # 0
       \/ UltimaPos(turno.mensaje, ".", turno.max) # 0 )
    => LET esp == UltimaPos(turno.mensaje, " ", turno.max)
           pto == UltimaPos(turno.mensaje, ".", turno.max)
       IN  /\ Corte(turno.mensaje, turno.max) = (IF esp # 0 THEN esp - 1 ELSE pto)
           /\ Len(RestoTrasCorte(turno.mensaje, turno.max)) < Len(turno.mensaje)

\* with neither a space nor a '.' in the window the cut is at 0: the chunk
\* is empty and the text is left whole, and the call does not return
\* unless trimming the text shortens it
C20_NoHardCut ==
  ( /\ Dividido /\ Len(turno.mensaje) > turno.max
    /\ UltimaPos(turno.mensaje, " ", turno.max) = 0
    /\ UltimaPos(turno.mensaje, ".", turno.max) = 0 )
    => /\ Corte(turno.mensaje, turno.max) = 0
       /\ RestoTrasCorte(turno.mensaje, turno.max) = Strip(turno.mensaje)
       /\ Strip(turno.mensaje) = turno.mensaje => ~turno.fin

\* the text actions of a turn that carry a segment of the reply, in order
Segmentos(traza) ==
  SelectSeq(traza, LAMBDA e : e.e = "send" /\ e.msg.tpl = "segmento")

\* a question was answered at waitForQuestion with a reply of 3500
\* characters and the turn ran to its end
RespondidoLargo ==
  /\ TurnoHecho /\ turno.regla = "waitForQuestion"
  /\ Consultas(turno.traza) # <<>>
  /\ Len(Consultas(turno.traza)[1].data.reply) = 3500

\* the actions of the turn are the segments and then the "anything else?"
\* question, and the step is additionalHelp
SegmentosAntesDePregunta ==
  /\ Envios(turno.traza) =
       Segmentos(turno.traza)
         \o << enviar_mensaje_telegram(Txt("otra_pregunta"),
                                       BotonesOtraPregunta(Get(tabla[turno.id], "rol", "user")),
                                       Vacio, Vacio, Vacio) >>
  /\ tabla[turno.id].step = "additionalHelp"

C18_WitnessSix ==
  /\ RespondidoLargo
  /\ Consultas(turno.traza)[1].data.reply = RespuestaLarga(600, " ")
  /\ Len(Segmentos(turno.traza)) = 6

\* the last chunk the call returned
UltimoTrozo == turno.trozos[Len(turno.trozos)]

\* C21: whenever dividir_mensaje returns, no chunk is longer than the limit
\* and the last chunk is the final remainder: the text itself when it fits
\* the limit, else the trimmed rest of the text after the last cut.
C21_ChunksWithinLimit ==
  (Dividido /\ turno.fin)
    => /\ turno.trozos # <<>>
       /\ \A i \in DOMAIN turno.trozos : Len(turno.trozos[i]) <= turno.max
       /\ IF Len(turno.mensaje) <= turno.max
          THEN turno.trozos = << turno.mensaje >>
          ELSE /\ Len(turno.trozos) >= 2
               /\ UltimoTrozo = Strip(UltimoTrozo)
               /\ \E i \in 1..(Len(turno.mensaje) + 1) :
                    UltimoTrozo = Strip(SubSeq(turno.mensaje, i, Len(turno.mensaje)))

\* a text was cut after a '.' into a chunk as long as the limit and a
\* remainder
C21_Witness ==
  /\ Dividido /\ turno.fin
  /\ Len(turno.trozos) = 2
  /\ Len(turno.trozos[1]) = turno.max
  /\ UltimoTrozo # <<>>

\* the reply of the assistant call of the turn
Reply == Consultas(turno.traza)[1].data.reply

\* the turn treated the reserved reply as a signal: it is not the text of
\* any action, and the profile is at paso with mode normal
SenalAtendida(paso) ==
  /\ \A i \in DOMAIN turno.traza :
       turno.traza[i].e = "send" => turno.traza[i].msg.arg # Reply
  /\ tabla[turno.id].step = paso
  /\ tabla[turno.id].modo = "normal"

\* a turn of one of the rules in reglas consulted the assistant
Consultado(reglas) ==
  /\ TurnoHecho /\ turno.regla \in reglas
  /\ Consultas(turno.traza) # <<>>

\* C22: in waitForQuestion and in additionalHelp, a reply equal to
\* TOKEN_START is not delivered as text and ends the turn with step start
\* and mode normal, and a reply equal to TOKEN_END is not delivered and
\* ends it with step finalizado and mode normal.
C22_ReservedReplies ==
  Consultado({"waitForQuestion", "additionalHelp"})
    => /\ Reply = TOKEN_START => SenalAtendida("start")
       /\ Reply = TOKEN_END => SenalAtendida("finalizado")

\* the same for additionalHelp alone
C22_ReservedInAdditionalHelp ==
  Consultado({"additionalHelp"})
    => /\ Reply = TOKEN_START => SenalAtendida("start")
       /\ Reply = TOKEN_END => SenalAtendida("finalizado")

\* what waitForQuestion does with a reserved reply: it sends it as the one
\* segment of the answer and goes to additionalHelp
C22_DeliveredInWaitForQuestion ==
  (Consultado({"waitForQuestion"}) /\ Reply \in {TOKEN_START, TOKEN_END})
    => /\ Envios(turno.traza)[1] =
            enviar_mensaje_telegram(TxtArg("segmento", Reply), Vacio, Vacio, Vacio, Vacio)
       /\ tabla[turno.id].step = "additionalHelp"

\* the model and the persona the claim gives the assistant call of this
\* step's turn: the profile's model when it is a non-blank text, else the
\* default; gandalf for mode gandalf or role developer, else chatgpt
ConsultaEsperada ==
  LET p == tabla[turno'.id]
      c == Consultas(turno'.traza)[1]
  IN  /\ c.data.model =
           (IF "model" \in DOMAIN p /\ \E i \in DOMAIN p.model : ~EsEspacio(p.model[i])
            THEN p.model ELSE <<"g", "p", "t", "-", "4", "o">>)
      /\ c.svc = (IF p.modo = "gandalf" \/ Get(p, "rol", "user") = "developer"
                  THEN "pregunta_a_gandalf" ELSE "pregunta_a_chatgpt")

\* this step's turn, of one of the rules in reglas, consulted the assistant
ConsultaDe(reglas) ==
  /\ TurnoDe /\ ~turno'.abort
  /\ turno'.regla \in reglas
  /\ Consultas(turno'.traza) # <<>>

\* C23: the assistant call of waitForQuestion and the assistant call of
\* additionalHelp use the profile's model when it is a non-blank text and
\* the default model otherwise, and the persona of the mode and the role.
C23_ModelAndPersona ==
  [][ ConsultaDe({"waitForQuestion", "additionalHelp"}) => ConsultaEsperada ]_vars

\* the same for the call of waitForQuestion alone
C23_InWaitForQuestion ==
  [][ ConsultaDe({"waitForQuestion"}) => ConsultaEsperada ]_vars

\* what additionalHelp does: the call is always to the chatgpt persona with
\* the default model
C23_DefaultInAdditionalHelp ==
  [][ ConsultaDe({"additionalHelp"})
      => /\ Consultas(turno'.traza)[1].svc = "pregunta_a_chatgpt"
         /\ Consultas(turno'.traza)[1].data.model = <<"g", "p", "t", "-", "4", "o">> ]_vars

\* C24: at additionalHelp the input 'no' ends the turn with step finalizado
\* and mode normal, whatever the mode was, emits exactly one action, the
\* farewell, and calls no collaborator.
C24_Farewell ==
  [][ (TurnoDe /\ tabla[turno'.id].step = "additionalHelp" /\ turno'.m = t_no)
      => /\ ~turno'.abort
         /\ turno'.regla = "additionalHelp"
         /\ tabla'[turno'.id].step = "finalizado"
         /\ tabla'[turno'.id].modo = "normal"
         /\ Llamadas(turno'.traza) = <<>>
         /\ Len(Envios(turno'.traza)) = 1
         /\ Envios(turno'.traza)[1] \in
              {enviar_mensaje_telegram(Txt(d), Vacio, Vacio, Vacio, Vacio) :
                 d \in {"despedida", "despedida_admin"}} ]_vars

\* a developer said 'no' at additionalHelp and got the farewell
C24_Witness ==
  /\ TurnoHecho
  /\ turno.step0 = "additionalHelp" /\ turno.m = t_no
  /\ Get(tabla[turno.id], "rol", "user") = "developer"
  /\ tabla[turno.id].step = "finalizado" /\ tabla[turno.id].modo = "normal"
  /\ Envios(turno.traza) =
       << enviar_mensaje_telegram(Txt("despedida_admin"), Vacio, Vacio, Vacio, Vacio) >>

\* the askedMaster rule fired on the keyword k and the turn ran to its end
RolElegido(k) == TurnoHecho /\ turno.regla = "askedMaster" /\ turno.m = k

\* the profile after the turn has the role, the mode and the step
PerfilCon(rol, modo, paso) ==
  /\ Get(tabla[turno.id], "rol", "user") = rol
  /\ tabla[turno.id].modo = modo
  /\ tabla[turno.id].step = paso

\* C25: at askedMaster 'usuario' leaves role user, mode normal and step
\* askedWelcome; 'asociado' leaves role admin, mode normal and step
\* askedAdmin; 'desarrollador', with the developer flag on, leaves role
\* developer, mode gandalf and step waitForQuestion; 'master' leaves step
\* askedTrainer.
C25_RoleSwitch ==
  /\ RolElegido(t_usuario) => PerfilCon("user", "normal", "askedWelcome")
  /\ RolElegido(t_asociado) => PerfilCon("admin", "normal", "askedAdmin")
  /\ (RolElegido(t_desarrollador) /\ Get(tabla[turno.id], "developer", "OFF") = "ON")
       => PerfilCon("developer", "gandalf", "waitForQuestion")
  /\ RolElegido(t_master) => tabla[turno.id].step = "askedTrainer"

\* what the rule does: the step is the entry step of the keyword, and the
\* only other change is the mode gandalf of 'desarrollador'
C25_StepOnly ==
  /\ RolElegido(t_usuario) => tabla[turno.id].step = "askedWelcome"
  /\ RolElegido(t_asociado) => tabla[turno.id].step = "askedAdmin"
  /\ (RolElegido(t_desarrollador) /\ Get(tabla[turno.id], "developer", "OFF") = "ON")
       => tabla[turno.id].step = "waitForQuestion" /\ tabla[turno.id].modo = "gandalf"
  /\ RolElegido(t_master) => tabla[turno.id].step = "askedTrainer"

\* the labels of the stored document index whose entry is a document and
\* that the input of this step's turn spells, whatever its letter case
DocumentosPedidos ==
  LET p == tabla[turno'.id]
  IN  IF "documents" \in DOMAIN p
      THEN {l \in DOMAIN p.documents :
              Lower(l) = turno'.m /\ EndsWith(p.documents[l], t_pdf)}
      ELSE {}

\* the turn sent the document of path and nothing else, called no
\* collaborator, went to start and left the document index as it was
DocumentoEnviado(path) ==
  /\ ~turno'.abort
  /\ Len(Envios(turno'.traza)) = 1
  /\ Envios(turno'.traza)[1].tipo = "documento"
  /\ Envios(turno'.traza)[1].url = path
  /\ Llamadas(turno'.traza) = <<>>
  /\ tabla'[turno'.id].step = "start"
  /\ tabla'[turno'.id].documents = tabla[turno'.id].documents

\* C26: at document_choice, for every label of the document index whose
\* entry is a document, sending the label, in any letter case, emits one
\* document action for its path, calls no collaborator, sets step start and
\* leaves the document index unchanged.
C26_DocumentSent ==
  [][ (TurnoDe /\ turno'.regla = "document_choice")
      => \A l \in DocumentosPedidos : DocumentoEnviado(tabla[turno'.id].documents[l]) ]_vars

\* the same for the labels that are stored in lower case
C26_LowerCaseLabelSent ==
  [][ (TurnoDe /\ turno'.regla = "document_choice")
      => \A l \in DocumentosPedidos :
           Lower(l) = l => DocumentoEnviado(tabla[turno'.id].documents[l]) ]_vars

\* a label with a capital letter is not found in the index: the turn asks
\* the catalog for a folder of that name
C26_UpperCaseLabelMissed ==
  [][ (TurnoDe /\ turno'.regla = "document_choice")
      => \A l \in DocumentosPedidos :
           Lower(l) # l
             => /\ Llamadas(turno'.traza) # <<>>
                /\ Llamadas(turno'.traza)[1].svc = "obtener_documentos" ]_vars

\* a document stored under a lower-case label was sent
C26_Witness ==
  /\ TurnoHecho /\ turno.regla = "document_choice" /\ turno.m = m_b_pdf
  /\ Len(Envios(turno.traza)) = 1
  /\ Envios(turno.traza)[1].tipo = "documento"
  /\ tabla[turno.id].step = "start"

\* the turn that is ending is for a request without a chat id or without a text
TurnoMalformado == turno'.op = "chat" /\ (turno'.id = "" \/ turno'.m = <<>>)

\* C27: a request without a sender id or without a text is rejected: the
\* table of profiles is left as it was (no profile created, none changed)
\* and the turn records no action, no call and no write.
C27_MalformedRejected ==
  [][ TurnoMalformado
      => /\ tabla' = tabla
         /\ turno'.traza = <<>>
         /\ ~turno'.valido ]_vars

\* a request without a text arrived for a profile that is in the middle of
\* the conversation
C27_Witness ==
  /\ turno.op = "chat" /\ ~turno.valido /\ turno.id = "u1"
  /\ "u1" \in DOMAIN tabla /\ tabla["u1"].step # "start"

\* a request without a text arrived from a sender that has no profile
C27_WitnessUnseen ==
  /\ turno.op = "chat" /\ ~turno.valido /\ turno.id = "u1"
  /\ "u1" \notin DOMAIN tabla

\* C28: every turn for a request that has a sender id and a text emits at
\* least one outbound action; only a request without one of them is silent.
C28_EveryTurnAnswers ==
  turno.op = "chat" => (turno.valido <=> Envios(turno.traza) # <<>>)

\* the turns that end without raising and without an action are those of
\* waitForQuestion with 'continuar' and of additionalHelp with an unlisted
\* text outside the assistant mode
C28_SilentTurns ==
  (TurnoHecho /\ Envios(turno.traza) = <<>>)
    => \/ turno.regla = "waitForQuestion" /\ turno.m = t_continuar
       \/ /\ turno.regla = "additionalHelp"
          /\ tabla[turno.id].modo # "chatgpt"
          /\ turno.m \notin {t_no, t_volver, Lower(L_Si)}


\* the steps a stored profile may be at
Pasos ==
  {"start", "master", "askedWelcome", "askedBirthdate", "askedEmail", "askedSex",
   "askBenefit", "askedParent", "askedBirthdateParent", "askedFamily",
   "waitForQuestion", "additionalHelp", "confirmContinue", "finalizado",
   "askedAdmin", "askedMaster", "askedTrainer", "sub_category_selection",
   "company_selection", "document_choice"}

\* the modes a stored profile may be in
Modos == {"normal", "chatgpt", "gandalf"}

\* the stored profiles: every item but the shared instructions record
Perfiles == (DOMAIN tabla) \ {ClaveInstrucciones}

MismoTurno(db, ea, eb, regla) ==
  /\ Regla(Contexto(db, eb)) = regla
  /\ \A o \in OraculosDe(regla) :
       /\ lambda_handler(db, ea, o).db = lambda_handler(db, eb, o).db
       /\ lambda_handler(db, ea, o).turno.traza = lambda_handler(db, eb, o).turno.traza

\* the texts a and b, sent to the stored table, have the same outcome
MismoResultado(a, b) ==
  MismoTurno(tabla, Mensaje("u1", a), Mensaje("u1", b),
             Regla(Contexto(tabla, Mensaje("u1", a))))

\* C30: two inputs that differ only in letter case or in leading or
\* trailing whitespace select the same rule and produce the same profile and
\* the same actions.
C30_Normalised ==
  \A a, b \in MensajesNormaliza :
    Lower(Strip(a)) = Lower(Strip(b)) => MismoResultado(a, b)

\* two inputs that differ only in letter case have the same outcome
C30_CaseInsensitive ==
  \A a, b \in MensajesNormaliza : Lower(a) = Lower(b) => MismoResultado(a, b)

\* outside step start and in mode normal, 'hola' is the start keyword and
\* 'hola' followed by a space is not: the branch of the stored step gets it;
\* a date followed by a space is not a date
C30_NotTrimmed ==
  /\ validar_fecha(m_fecha) # NoFecha
  /\ validar_fecha(m_fecha_fin) = NoFecha
  /\ ("u1" \in DOMAIN tabla /\ tabla["u1"].step # "start" /\ tabla["u1"].modo = "normal")
       => /\ Regla(Contexto(tabla, Mensaje("u1", t_hola))) = "start"
          /\ Regla(Contexto(tabla, Mensaje("u1", m_hola_fin))) # "start"

\* the positions of the trace of the turn that hold an outbound action
PosEnvios == {i \in DOMAIN turno.traza : turno.traza[i].e = "send"}

\* the positions of the trace that hold a write of the sender's profile
PosEscrituras ==
  {i \in DOMAIN turno.traza : turno.traza[i].e = "save" /\ turno.traza[i].id = turno.id}

\* C31: within a turn the updated profile is persisted before the outbound
\* actions are dispatched: the turn writes the profile, and its last write
\* of the profile precedes every outbound action of the turn.
C31_WriteBeforeActions ==
  (turno.op = "chat" /\ turno.valido /\ PosEnvios # {})
    => /\ PosEscrituras # {}
       /\ \A i \in PosEnvios : \E j \in PosEscrituras :
            j < i /\ \A k \in PosEscrituras : k <= j

\* in a turn that returns, the write of the updated profile is the last
\* event: every outbound action of the turn precedes it
C31_ActionsBeforeWrite ==
  TurnoHecho
    => /\ Len(turno.traza) \in PosEscrituras
       /\ \A i \in PosEnvios : i < Len(turno.traza)


\* the turn of this step is the askedAdmin branch for the text m
EnAskedAdmin(m) == TurnoDe /\ turno'.regla = "askedAdmin" /\ turno'.m = m

\* the category m was stored and its subcategory labels were registered
CategoriaElegida(m) ==
  LET p == tabla'[turno'.id]
  IN  /\ p.step = "sub_category_selection"
      /\ p.categoria = m
      /\ \A l \in Elems(suboptions[m]) :
           Lower(l) \in DOMAIN Hist(p) /\ Hist(p)[Lower(l)] = "sub_category_selection"

\* C32: every option of the area menu, sent back at askedAdmin, is
\* recognised: a category ends the turn at sub_category_selection with the
\* category stored and its subcategories registered, the talk option ends
\* it at waitForQuestion, and none ends it at start.
C32_AreaOptionsRecognised ==
  [][ \A op \in Elems(OpcionesArea) :
        EnAskedAdmin(Lower(op))
          => /\ tabla'[turno'.id].step # "start"
             /\ (op # L_Hablar_con_TUBOT => CategoriaElegida(Lower(op)))
             /\ (op = L_Hablar_con_TUBOT => tabla'[turno'.id].step = "waitForQuestion") ]_vars

\* the three categories are recognised as claimed
C32_CategoriesRecognised ==
  [][ \A op \in Elems(OpcionesArea) \ {L_Hablar_con_TUBOT} :
        EnAskedAdmin(Lower(op)) => CategoriaElegida(Lower(op)) ]_vars

\* the talk option of the menu is not the keyword of line 1131: the turn
\* asks for a subarea and ends at start
C32_TalkOptionUnknown ==
  [][ EnAskedAdmin(Lower(L_Hablar_con_TUBOT))
        => /\ tabla'[turno'.id].step = "start"
           /\ Len(Envios(turno'.traza)) = 1
           /\ Envios(turno'.traza)[1].msg = Txt("pide_subarea") ]_vars

\* the steps that have a branch in the chain and that nothing stores
PasosMuertos == {"endCotiza", "askedOnlyName", "askedName", "end", "gandalf"}

\* C33: the branch of step endCotiza is dead, and so are those of
\* askedOnlyName, askedName, end and gandalf: no turn resolves one of these
\* steps or runs its branch, no stored profile is at one of them and no
\* history maps a keyword to one of them.
C33_DeadSteps ==
  /\ (turno.op = "chat" /\ turno.valido)
       => /\ turno.step0 \notin PasosMuertos
          /\ turno.step \notin PasosMuertos
          /\ turno.regla \notin PasosMuertos
  /\ \A id \in Perfiles :
       /\ tabla[id].step \notin PasosMuertos
       /\ \A k \in DOMAIN Hist(tabla[id]) : Hist(tabla[id])[k] \notin PasosMuertos

\* a conversation went through the assistant and reached confirmContinue,
\* the step the endCotiza branch would store
C33_Witness ==
  /\ TurnoHecho /\ turno.regla = "additionalHelp"
  /\ tabla[turno.id].step = "confirmContinue"

\* the turn of this step is the confirmContinue branch
EnConfirmContinue == TurnoDe /\ turno'.regla = "confirmContinue" /\ ~turno'.abort

\* the turn ended with the one action msg, at step paso and in mode modo
TerminaCon(msg, paso, modo) ==
  /\ Len(Envios(turno'.traza)) = 1
  /\ Envios(turno'.traza)[1].msg = Txt(msg)
  /\ tabla'[turno'.id].step = paso
  /\ tabla'[turno'.id].modo = modo

\* C34: at confirmContinue, 'si' ends the turn with the next-question
\* prompt, step additionalHelp and mode chatgpt; 'cotiza' ends it at start
\* in mode normal; only the other inputs end it with the farewell, step
\* finalizado and mode normal.
C34_ConfirmContinue ==
  [][ EnConfirmContinue
        => /\ (turno'.m = t_si => TerminaCon("proxima_pregunta", "additionalHelp", "chatgpt"))
           /\ (turno'.m = t_cotiza => TerminaCon("podemos_cotizar", "start", "normal"))
           /\ (tabla'[turno'.id].step = "finalizado" => turno'.m \notin {t_si, t_cotiza}) ]_vars

\* 'cotiza' goes back to start; every other input, 'si' included, gets the
\* farewell and ends at finalizado in mode normal
C34_OnlyCotizaEscapes ==
  [][ EnConfirmContinue
        => IF turno'.m = t_cotiza
           THEN TerminaCon("podemos_cotizar", "start", "normal")
           ELSE TerminaCon("despedida", "finalizado", "normal") ]_vars

\* the steps of the operator functions
PasosOperador == {"master", "askedMaster", "askedTrainer"}

\* the master flag of the stored profile id is off
SinMaster(id) == Get(tabla[id], "master", "OFF") # "ON"

\* C35: a profile whose master flag is off never reaches step master,
\* askedMaster or askedTrainer, no turn of it resolves or runs one of these
\* steps, and no turn of it writes the shared instructions record.
C35_OperatorGated ==
  /\ \A id \in Perfiles : SinMaster(id) => tabla[id].step \notin PasosOperador
  /\ (turno.op = "chat" /\ turno.valido /\ turno.id \in Perfiles /\ SinMaster(turno.id))
       => /\ turno.step \notin PasosOperador
          /\ turno.regla \notin PasosOperador
          /\ \A i \in DOMAIN turno.traza :
               turno.traza[i].e = "save" => turno.traza[i].id # ClaveInstrucciones
  /\ ((\A id \in Perfiles : SinMaster(id)) => ClaveInstrucciones \notin DOMAIN tabla)

\* a stored profile with the flag off sent a text at step start and the
\* start rule answered it
C35_Witness ==
  /\ TurnoHecho /\ ~turno.nuevo /\ turno.step0 = "start" /\ turno.m # t_hola
  /\ turno.regla = "start" /\ SinMaster(turno.id)

\* the same for the profiles and turns of operators: while the master flag
\* of a profile is off, it is at none of the operator steps and its turns
\* run none of their branches
C35_GatedByFlag ==
  /\ \A id \in Perfiles : SinMaster(id) => tabla[id].step \notin PasosOperador
  /\ (turno.op = "chat" /\ turno.valido /\ turno.id \in Perfiles /\ SinMaster(turno.id))
       => turno.regla \notin PasosOperador

\* the steps of the document flow
PasosDocumentos ==
  {"askedAdmin", "sub_category_selection", "company_selection", "document_choice"}

\* the stored profile id is of a regular user: role user, master flag off
UsuarioRegular(id) == Get(tabla[id], "rol", "user") = "user" /\ SinMaster(id)

\* the calls of the turn to the document catalog
LlamadasCatalogo ==
  SelectSeq(turno.traza,
            LAMBDA e : e.e = "call" /\ e.svc \in {"obtener_documentos", "elegir_documento"})

\* C36: a regular user never reaches step askedAdmin,
\* sub_category_selection, company_selection or document_choice, no turn of
\* it runs one of their branches or calls the document catalog, and its
\* history never gains a key.
C36_DocumentsGated ==
  /\ \A id \in Perfiles :
       UsuarioRegular(id)
         => tabla[id].step \notin PasosDocumentos /\ DOMAIN Hist(tabla[id]) = {}
  /\ (turno.op = "chat" /\ turno.valido /\ turno.id \in Perfiles /\ UsuarioRegular(turno.id))
       => /\ turno.step \notin PasosDocumentos
          /\ turno.regla \notin PasosDocumentos
          /\ LlamadasCatalogo = <<>>

\* a regular user that has a name was greeted by the start rule and asked
\* for the birth date
C36_Witness ==
  /\ TurnoHecho /\ turno.regla = "start" /\ UsuarioRegular(turno.id)
  /\ tabla[turno.id].step = "askedBirthdate"

\* the steps of the assistant conversation
PasosAsistente == {"waitForQuestion", "additionalHelp", "confirmContinue"}

\* C37: in every stored profile of a regular user, mode chatgpt implies
\* that the step is waitForQuestion, additionalHelp or confirmContinue, and
\* step start implies mode normal; a text sent at step start therefore
\* fires the start rule, not the fallback.
C37_ModeImpliesStep ==
  /\ \A id \in Perfiles :
       UsuarioRegular(id)
         => /\ (tabla[id].modo = "chatgpt" => tabla[id].step \in PasosAsistente)
            /\ (tabla[id].step = "start" => tabla[id].modo = "normal")
  /\ (TurnoHecho /\ turno.id \in Perfiles /\ UsuarioRegular(turno.id)
        /\ turno.step = "start" /\ turno.m \notin {t_chatgpt, t_dr_seguro})
       => turno.regla = "start"

\* a regular user left the assistant conversation: the profile was in mode
\* chatgpt at the start of the turn and is back at start in mode normal
C37_Witness ==
  /\ TurnoHecho /\ turno.regla \in {"additionalHelp", "confirmContinue"}
  /\ UsuarioRegular(turno.id)
  /\ tabla[turno.id].step = "start" /\ tabla[turno.id].modo = "normal"

\* a reply of the assistant that is longer than the limit and holds no
\* space and no full stop
RespuestaSinSeparador == [i \in 1..(max_length + 1) |-> "a"]

\* what the collaborators may answer in a turn of the rule regla when the
\* assistant answers one of replies
OraculosCon(regla, replies) ==
  IF regla \in {"waitForQuestion", "additionalHelp"}
  THEN {[O0 EXCEPT !.gpt = a] : a \in replies}
  ELSE {O0}

\* the sender u1 sends 'hola' again and again to the table db while the
\* assistant answers one of replies: the start rule fires within n turns
RECURSIVE ReiniciaEn(_, _, _)
ReiniciaEn(db, n, replies) ==
  /\ n > 0
  /\ \/ Regla(Contexto(db, Mensaje("u1", t_hola))) = "start"
     \/ \A o \in OraculosCon(Regla(Contexto(db, Mensaje("u1", t_hola))), replies) :
          ReiniciaEn(lambda_handler(db, Mensaje("u1", t_hola), o).db, n - 1, replies)

\* the table holds the profile of u1, a regular user
ConUsuarioRegular == "u1" \in DOMAIN tabla /\ UsuarioRegular("u1")

\* C38: from every reachable state of a regular user, if every following
\* message is 'hola' and every collaborator call returns, the start rule
\* fires within at most three turns.
C38_RestartWithinThree ==
  ConUsuarioRegular
    => ReiniciaEn(tabla, 3, Respuestas \cup {RespuestaSinSeparador})

\* the same when every reply of the assistant is one that the segmenter
\* returns from
C38_RestartWhenSegmented ==
  ConUsuarioRegular => ReiniciaEn(tabla, 3, Respuestas)

\* two turns are enough everywhere but at waitForQuestion in mode chatgpt
C38_TwoTurnsBut ==
  (ConUsuarioRegular /\ ~ReiniciaEn(tabla, 2, Respuestas))
    => tabla["u1"].step = "waitForQuestion" /\ tabla["u1"].modo = "chatgpt"

\* at waitForQuestion in mode chatgpt a reply without separators keeps the
\* profile where it is: 'hola' never restarts the conversation
C38_Trapped ==
  (ConUsuarioRegular /\ tabla["u1"].step = "waitForQuestion" /\ tabla["u1"].modo = "chatgpt")
    => lambda_handler(tabla, Mensaje("u1", t_hola),
                      [O0 EXCEPT !.gpt = RespuestaSinSeparador]).db = tabla

\* both askedTrainer turns have ended
Entrenados == turno.op = "trainer" /\ \A s \in Entrenadores : turno.pc[s] = "fin"

\* the instructions after the texts of a and then b were appended
TrasAmbos(a, b) == turno.previo \o <<"\n">> \o turno.m[a] \o <<"\n">> \o turno.m[b]

\* C39: when two askedTrainer turns of two senders are processed
\* concurrently, in any interleaving of their reads and writes of the shared
\* record, the record finally holds both texts appended to what it held.
C39_NoLostAppend ==
  Entrenados
    => tabla[ClaveInstrucciones].instrucciones \in {TrasAmbos("u1", "u2"), TrasAmbos("u2", "u1")}

\* turns that do not overlap lose nothing: when each handler read the
\* record after the other had written it, both texts are in the record
C39_SerialKeepsBoth ==
  (Entrenados /\ ~turno.solapado)
    => tabla[ClaveInstrucciones].instrucciones \in {TrasAmbos("u1", "u2"), TrasAmbos("u2", "u1")}

\* turns that overlap lose one append: the record holds what it held and
\* the text of the handler that wrote last, nothing of the other
C39_OverlapLosesOne ==
  (Entrenados /\ turno.solapado)
    => \E s \in Entrenadores :
         tabla[ClaveInstrucciones].instrucciones = turno.previo \o <<"\n">> \o turno.m[s]
====
